---- MODULE Spec2Model ----
(***************************************************************************)
(* A model of the structured-cloneable to Unicode-only serializer          *)
(* (scuo-serializer): numerals, the byte-buffer sub-codec, the recursive   *)
(* value serializer and deserializer, the LZ4 block codec, the            *)
(* synchronous API, the configuration, the asynchronous API with its pool  *)
(* of background contexts, and cacheStorage, which stores what the         *)
(* serializer returns.                                                     *)
(*                                                                         *)
(* A JavaScript string is a sequence of character codes.  A JavaScript     *)
(* value is a record [t, n, s]: a primitive, or a reference (t = "ref")    *)
(* into a heap, a sequence of objects [k, x, items, bytes, n, m].  An      *)
(* object's identity is its index in the heap.                             *)
(***************************************************************************)
EXTENDS Integers, Sequences, FiniteSets, TLC

VARIABLES
    pc,           \* position of the caller: which call was made last
    scenario,     \* how the caller built its input (never read by the program)
    inHeap,       \* the caller's objects
    inVal,        \* the value handed to serialize
    options,      \* the options handed to serialize
    wire,         \* the string returned by serialize / handed to deserialize
    result,       \* what deserialize / canDeserialize returned, or that it threw
    lz,           \* block codec scenario: input bytes, encoded bytes, decoded bytes
    writeRefs,    \* module state, part_001:258
    writeBuffer,  \* module state, part_001:259
    readRefs,     \* module state, part_001:261: id -> index in readHeap
    readHeap,     \* the objects that readRefs holds on to
    readStr,      \* module state, part_001:262
    readPtr,      \* module state, part_001:263
    readEnd,      \* module state, part_001:264
    refCounter,   \* module state, part_001:266
    config,       \* the argument handed to setConfig
    currentConfig,\* module state, part_001:1111
    pool,         \* threads.pool, part_001:1229: the members, by their index in thread
    thread,       \* every Thread constructed so far (part_001:1134-1226)
    worker,       \* the background context of each Thread, and the messages in flight
    calls,        \* every call of serializeAsync / deserializeAsync made so far
    now,          \* Date.now()
    caches,       \* the Cache of cacheAPI (cachestorage.js:234-242), and whether it opened
    storageLocal  \* webext.storage.local (cachestorage.js:62)

vars == << pc, scenario, inHeap, inVal, options, wire, result, lz, writeRefs, writeBuffer,
           readRefs, readHeap, readStr, readPtr, readEnd, refCounter,
           config, currentConfig, pool, thread, worker, calls, now, caches, storageLocal >>

storevars == << caches, storageLocal >>

modvars ==
    << writeRefs, writeBuffer, readRefs, readHeap, readStr, readPtr, readEnd, refCounter >>

poolvars == << config, currentConfig, pool, thread, worker, calls, now, storevars >>

(***************************************************************************)
(* Constants of the wire format                                            *)
(***************************************************************************)
VERSION == 1
SEPARATORCHARCODE == 32
\* "UOSC_" VERSION " "
MAGICPREFIX == << 85, 79, 83, 67, 95, 48 + VERSION, SEPARATORCHARCODE >>
\* "UOSC/lz4_" VERSION " "
MAGICLZ4PREFIX == << 85, 79, 83, 67, 47, 108, 122, 52, 95, 48 + VERSION, SEPARATORCHARCODE >>
\* Number.MAX_SAFE_INTEGER, here the largest integer of the model
FAILMARK == 2147483647
NUMSAFECHARS == 88

\* what charCodeAt returns past the end of a string, and what an array
\* lookup with a missing index returns
NaN == -1
Undefined == -1

\* SAFECHARS is "&" .. "[" (codes 38..91) followed by "]" .. "~" (93..126)
intToCharCode(i) ==
    IF i < 0 \/ i >= NUMSAFECHARS THEN 0
    ELSE IF i < 54 THEN 38 + i ELSE 39 + i

charCodeToInt(c) ==
    IF c < 0 \/ c > 127 THEN Undefined
    ELSE IF c >= 38 /\ c <= 91 THEN c - 38
    ELSE IF c >= 93 /\ c <= 126 THEN c - 39
    ELSE 0

\* intToChar[i]: a one-character string, or '' outside the alphabet
intToChar(i) ==
    IF i < 0 \/ i >= NUMSAFECHARS THEN << >> ELSE << intToCharCode(i) >>

I_STRING_SMALL == 1
I_STRING_LARGE == 2
I_ZERO == 3
I_INTEGER_SMALL_POS == 4
I_INTEGER_SMALL_NEG == 5
I_INTEGER_LARGE_POS == 6
I_INTEGER_LARGE_NEG == 7
I_BOOL_FALSE == 8
I_BOOL_TRUE == 9
I_NULL == 10
I_UNDEFINED == 11
I_FLOAT == 12
I_REGEXP == 13
I_DATE == 14
I_REFERENCE == 15
I_SMALL_OBJECT == 16
I_LARGE_OBJECT == 17
I_ARRAY_SMALL == 18
I_ARRAY_LARGE == 19
I_SET_SMALL == 20
I_SET_LARGE == 21
I_MAP_SMALL == 22
I_MAP_LARGE == 23
I_ARRAYBUFFER == 24
I_INT8ARRAY == 25
I_UINT8ARRAY == 26
I_FLOAT64ARRAY == 33
I_DATAVIEW == 34

\* C_X = intToChar[I_X]
C(tag) == intToChar(tag)

(***************************************************************************)
(* Values                                                                  *)
(***************************************************************************)
VUndef == [t |-> "undefined", n |-> 0, s |-> << >>]
VNull == [t |-> "null", n |-> 0, s |-> << >>]
VBool(b) == [t |-> "boolean", n |-> IF b THEN 1 ELSE 0, s |-> << >>]
VInt(i) == [t |-> "number", n |-> i, s |-> << >>]
VFloat(text) == [t |-> "float", n |-> 0, s |-> text]
VStr(chars) == [t |-> "string", n |-> 0, s |-> chars]
VRef(a) == [t |-> "ref", n |-> a, s |-> << >>]
\* the number NaN
VNaN == [t |-> "NaN", n |-> 0, s |-> << >>]

\* k: "object", "array", "set", "map", "regexp", "date", "arraybuffer", "view"
\* x: for a view, the tag of its constructor
Obj(k, items) == [k |-> k, x |-> 0, items |-> items, bytes |-> << >>, n |-> 0, m |-> 0]
\* items: the time value
DateObj(time) == [k |-> "date", x |-> 0, items |-> << time >>, bytes |-> << >>, n |-> 0, m |-> 0]
\* n: maxByteLength
BufObj(bytes, max) == [k |-> "arraybuffer", x |-> 0, items |-> << >>, bytes |-> bytes, n |-> max, m |-> 0]
\* items: the reference to the buffer; n: byteOffset; m: length
ViewObj(tag, buf, off, len) == [k |-> "view", x |-> tag, items |-> << buf >>, bytes |-> << >>, n |-> off, m |-> len]

Truthy(v) ==
    CASE v.t = "undefined" -> FALSE
      [] v.t = "null" -> FALSE
      [] v.t = "boolean" -> v.n = 1
      [] v.t = "number" -> v.n # 0
      [] v.t = "string" -> Len(v.s) > 0
      [] OTHER -> TRUE

(***************************************************************************)
(* Numerals                                                                *)
(***************************************************************************)
\* const x = v; ...: With([x \in {v} |-> e]) is e with x standing for the
\* value of v
With(f) == f[CHOOSE x \in DOMAIN f : TRUE]

RECURSIVE serializeSizeDigits(_)
serializeSizeDigits(i) ==
    LET r == i % NUMSAFECHARS
    IN  IF i - r = 0 THEN intToChar(r)
        ELSE intToChar(r) \o serializeSizeDigits((i - r) \div NUMSAFECHARS)

serializeSize(i) == serializeSizeDigits(i) \o << SEPARATORCHARCODE >>

\* str.charCodeAt(p); a position that is NaN reads position 0
charCodeAt(str, p) ==
    LET q == IF p = NaN THEN 0 ELSE p
    IN  IF q >= 0 /\ q < Len(str) THEN str[q + 1] ELSE NaN


\* readPtr holding NaN stays NaN under ++ and +=
PtrAdd(p, k) == IF p = NaN \/ k = NaN THEN NaN ELSE p + k

RECURSIVE Pow88(_)
Pow88(k) == IF k = 0 THEN 1 ELSE NUMSAFECHARS * Pow88(k - 1)

\* The while loop of deserializeSize: n is the value so far, k the number of
\* digits read.  loops = TRUE: the end of the string was reached before a
\* separator, and the loop never ends.
RECURSIVE deserializeSizeLoop(_, _, _, _)
deserializeSizeLoop(str, p, n, k) ==
    With([c \in {charCodeAt(str, p)} |->
        IF c = SEPARATORCHARCODE THEN [n |-> n, p |-> PtrAdd(p, 1), loops |-> FALSE]
        ELSE IF c = NaN \/ p = NaN THEN [n |-> NaN, p |-> PtrAdd(p, 1), loops |-> TRUE]
        ELSE With([d \in {charCodeToInt(c)} |->
                 deserializeSizeLoop(str, PtrAdd(p, 1),
                     IF n = NaN \/ d = Undefined THEN NaN
                     ELSE IF d = 0 THEN n ELSE n + d * Pow88(k),
                     k + 1)])])

deserializeSize(str, p) ==
    deserializeSizeLoop(str, PtrAdd(p, 1), charCodeToInt(charCodeAt(str, p)), 1)

(***************************************************************************)
(* Typed-array views of a byte sequence (little-endian)                    *)
(***************************************************************************)
ByteAt(bytes, i) == IF i >= 0 /\ i < Len(bytes) THEN bytes[i + 1] ELSE 0

\* int32arr[i]
Int32At(bytes, i) ==
    LET b3 == bytes[4 * i + 4]
    IN  bytes[4 * i + 1] + 256 * bytes[4 * i + 2] + 65536 * bytes[4 * i + 3]
          + 16777216 * (IF b3 >= 128 THEN b3 - 256 ELSE b3)

\* int8arr[i]
Int8Of(b) == IF b >= 128 THEN b - 256 ELSE b

\* the four bytes stored by int32arr[i] = v
Int32Bytes(v) ==
    LET w == IF v < 0 THEN (v + 2147483647) + 1 ELSE v
        top == w \div 16777216
    IN  << w % 256, (w \div 256) % 256, (w \div 65536) % 256,
           IF v < 0 THEN top + 128 ELSE top >>

ZeroBytes(n) == [i \in 1..n |-> 0]

\* bytes with the bytes of part written at offset off; a write past the end
\* of a typed array is ignored
WriteBytes(bytes, off, part) ==
    [i \in 1..Len(bytes) |->
        IF i > off /\ i <= off + Len(part) THEN part[i - off] ELSE bytes[i]]

(***************************************************************************)
(* Byte-buffer sub-codec                                                   *)
(***************************************************************************)
\* the first loop of analyzeArrayBuffer, started at word i: one more than the
\* index of the last word that is not zero
NotzeroCount(bytes, i) ==
    With([nz \in {{j \in 0..i : Int32At(bytes, j) # 0}} |->
        IF nz = {} THEN 0 ELSE (CHOOSE j \in nz : \A k \in nz : k <= j) + 1])

\* (Math.log2(v) / BITS_PER_SAFECHARS | 0) for v >= NUMSAFECHARS
RECURSIVE Log88(_)
Log88(v) == IF v < NUMSAFECHARS THEN 0 ELSE 1 + Log88(v \div NUMSAFECHARS)

SparseCost(v) ==
    IF v = 0 THEN 1
    ELSE IF v >= NUMSAFECHARS THEN 2 + Log88(v) + 1
    ELSE IF v <= -NUMSAFECHARS THEN 2 + Log88(-v) + 1
    ELSE 2

\* the concatenation of seqs[lo..hi]
RECURSIVE Flatten(_, _, _)
Flatten(seqs, lo, hi) ==
    IF lo > hi THEN << >>
    ELSE IF lo = hi THEN seqs[lo]
    ELSE LET mid == (lo + hi) \div 2
         IN  Flatten(seqs, lo, mid) \o Flatten(seqs, mid + 1, hi)

\* sparseSize after words lo..hi
RECURSIVE SparseSize(_, _, _)
SparseSize(bytes, lo, hi) ==
    IF lo > hi THEN 0
    ELSE IF lo = hi THEN SparseCost(Int32At(bytes, lo))
    ELSE LET mid == (lo + hi) \div 2
         IN  SparseSize(bytes, lo, mid) + SparseSize(bytes, mid + 1, hi)

\* the second loop of analyzeArrayBuffer: TRUE when it returns dense.  Every
\* word adds at least 1, so sparseSize exceeds denseSize inside the loop
\* exactly when it does after the last word.
SparseExceeds(bytes, i, n, sparseSize, denseSize) ==
    sparseSize + SparseSize(bytes, i, n - 1) > denseSize

ContentByteLength(byteLength, int32len, notzeroCount) ==
    IF notzeroCount + 1 <= int32len THEN notzeroCount * 4 ELSE byteLength

analyzeArrayBuffer(bytes) ==
    With([contentByteLength \in
              {ContentByteLength(Len(bytes), Len(bytes) \div 4,
                                 NotzeroCount(bytes, (Len(bytes) \div 4) - 1))} |->
        LET contentInt32Len == contentByteLength \div 4
            contentInt32Rem == contentByteLength % 4
            denseSize == contentInt32Len * 5
                           + (IF contentInt32Rem # 0 THEN contentInt32Rem + 1 ELSE 0)
        IN  [contentByteLength |-> contentByteLength,
             dense |-> SparseExceeds(bytes, 0, contentInt32Len, 0, denseSize)]])

\* the five base-88 digits of uint32arr[i], least significant first
DenseWord(bytes, i) ==
    LET lo == bytes[4 * i + 1] + 256 * bytes[4 * i + 2]
        hi == bytes[4 * i + 3] + 256 * bytes[4 * i + 4]
        d0 == ((hi % NUMSAFECHARS) * 64 + lo) % NUMSAFECHARS
        v1 == (hi \div NUMSAFECHARS) * 65536
                + ((hi % NUMSAFECHARS) * 65536 + lo) \div NUMSAFECHARS
        v2 == v1 \div NUMSAFECHARS
        v3 == v2 \div NUMSAFECHARS
        v4 == v3 \div NUMSAFECHARS
    IN  << intToCharCode(d0), intToCharCode(v1 % NUMSAFECHARS),
           intToCharCode(v2 % NUMSAFECHARS), intToCharCode(v3 % NUMSAFECHARS),
           intToCharCode(v4) >>

DenseWords(bytes, i, n) ==
    Flatten([j \in 1..(n - i) |-> DenseWord(bytes, i + j - 1)], 1, n - i)

denseArrayBufferToStr(bytes, end) ==
    LET m == end % 4
        n == end - m
        v == ByteAt(bytes, n) + (IF m > 1 THEN 256 * ByteAt(bytes, n + 1) ELSE 0)
               + (IF m > 2 THEN 65536 * ByteAt(bytes, n + 2) ELSE 0)
        v1 == v \div NUMSAFECHARS
        v2 == v1 \div NUMSAFECHARS
        v3 == v2 \div NUMSAFECHARS
        tail == IF m = 0 THEN << >>
                ELSE << intToCharCode(v % NUMSAFECHARS), intToCharCode(v1 % NUMSAFECHARS) >>
                     \o (IF m > 1 THEN << intToCharCode(v2 % NUMSAFECHARS) >> ELSE << >>)
                     \o (IF m > 2 THEN << intToCharCode(v3 % NUMSAFECHARS) >> ELSE << >>)
    IN  DenseWords(bytes, 0, n \div 4) \o tail

\* one word or one trailing byte of the sparse form
SparseItem(n) ==
    IF n = 0 THEN C(I_ZERO)
    ELSE IF n >= NUMSAFECHARS THEN C(I_INTEGER_LARGE_POS) \o serializeSize(n)
    ELSE IF n > 0 THEN C(I_INTEGER_SMALL_POS) \o intToChar(n)
    ELSE IF n > -NUMSAFECHARS THEN C(I_INTEGER_SMALL_NEG) \o intToChar(-n)
    ELSE C(I_INTEGER_LARGE_NEG) \o serializeSize(-n)

SparseWords(bytes, i, n) ==
    Flatten([j \in 1..(n - i) |-> SparseItem(Int32At(bytes, i + j - 1))], 1, n - i)

SparseTail(bytes, i, end) ==
    Flatten([j \in 1..(end - i) |-> SparseItem(Int8Of(bytes[i + j]))], 1, end - i)

sparseArrayBufferToStr(bytes, end) ==
    serializeSize(end) \o SparseWords(bytes, 0, end \div 4)
        \o SparseTail(bytes, end - (end % 4), end)


(***************************************************************************)
(* _serialize: st = [buf, refs, rc, thrown] is writeBuffer (joined),       *)
(* writeRefs, refCounter, and whether an exception was thrown, which ends  *)
(* the walk                                                                *)
(***************************************************************************)
NoRefs == [a \in {} |-> 0]

\* refCounter = 1, with writeRefs and writeBuffer empty
WriteStart == [buf |-> << >>, refs |-> NoRefs, rc |-> 1, thrown |-> FALSE]

\* an ArrayBuffer that was transferred: byteLength and maxByteLength are 0,
\* and a view cannot be constructed on it
DetachedBuf ==
    [k |-> "arraybuffer", x |-> 1, items |-> << >>, bytes |-> << >>, n |-> 0, m |-> 0]
IsDetached(o) == o.k = "arraybuffer" /\ o.x = 1

Push(st, chars) == [st EXCEPT !.buf = @ \o chars]

\* the text of the value undefined converted to a string
UndefinedText == << 117, 110, 100, 101, 102, 105, 110, 101, 100 >>

\* the count always inlined as one character
EmitCountShort(smallTag, largeTag, size) == C(smallTag) \o intToChar(size)

\* tag and count of a string or of a container: the short form inlines one
\* character, the long form a numeral
EmitCount(smallTag, largeTag, size) ==
    IF size < NUMSAFECHARS THEN C(smallTag) \o intToChar(size)
    ELSE C(largeTag) \o serializeSize(size)

EmitInteger(n) ==
    IF n >= NUMSAFECHARS THEN C(I_INTEGER_LARGE_POS) \o serializeSize(n)
    ELSE IF n > 0 THEN C(I_INTEGER_SMALL_POS) \o intToChar(n)
    ELSE IF n > -NUMSAFECHARS THEN C(I_INTEGER_SMALL_NEG) \o intToChar(-n)
    ELSE C(I_INTEGER_LARGE_NEG) \o serializeSize(-n)

\* the id taken after the counter is advanced
RememberReferenceLate(st, addr) ==
    [st EXCEPT !.refs = (addr :> st.rc + 1) @@ st.refs, !.rc = st.rc + 1]

\* writeRefs.set(data, refCounter++)
RememberReference(st, addr) ==
    [st EXCEPT !.refs = (addr :> st.rc) @@ st.refs, !.rc = st.rc + 1]

\* the date branch: the argument of push is evaluated first, so the time is
\* pushed by the inner call before the tag, and the tag is concatenated with
\* the inner call's return value, undefined
EmitDate(stAfterTime) == Push(stAfterTime, C(I_DATE) \o UndefinedText)

RECURSIVE _serialize(_, _, _)
RECURSIVE SerializeItems(_, _, _, _, _)

\* the loops over the children of a container: children lo..hi, in order
SerializeItems(heap, items, lo, hi, st) ==
    IF lo > hi THEN st
    ELSE IF lo = hi THEN _serialize(heap, items[lo], st)
    ELSE LET mid == (lo + hi) \div 2
             st1 == SerializeItems(heap, items, lo, mid, st)
         IN  IF st1.rc > 0 THEN SerializeItems(heap, items, mid + 1, hi, st1) ELSE st1

SerializeComposite(heap, addr, st) ==
    LET o == heap[addr]
    IN  CASE o.k = "array" ->
               SerializeItems(heap, o.items, 1, Len(o.items),
                   Push(st, EmitCount(I_ARRAY_SMALL, I_ARRAY_LARGE, Len(o.items))))
          [] o.k = "set" ->
               SerializeItems(heap, o.items, 1, Len(o.items),
                   Push(st, EmitCount(I_SET_SMALL, I_SET_LARGE, Len(o.items))))
          [] o.k = "map" ->
               SerializeItems(heap, o.items, 1, Len(o.items),
                   Push(st, EmitCount(I_MAP_SMALL, I_MAP_LARGE, Len(o.items) \div 2)))
          [] IsDetached(o) ->
               [_serialize(heap, VInt(0), Push(st, C(I_ARRAYBUFFER) \o serializeSize(0)))
                    EXCEPT !.thrown = TRUE]
          [] o.k = "arraybuffer" /\ ~IsDetached(o) ->
               With([arrbuffDetails \in {analyzeArrayBuffer(o.bytes)} |->
                   _serialize(heap,
                       VStr(IF arrbuffDetails.dense
                            THEN denseArrayBufferToStr(o.bytes, arrbuffDetails.contentByteLength)
                            ELSE sparseArrayBufferToStr(o.bytes, arrbuffDetails.contentByteLength)),
                       _serialize(heap, VBool(arrbuffDetails.dense),
                           _serialize(heap, VInt(o.n),
                               Push(st, C(I_ARRAYBUFFER) \o serializeSize(Len(o.bytes))))))])
          [] o.k = "view" ->
               _serialize(heap, o.items[1],
                   Push(st, C(o.x) \o serializeSize(o.n) \o serializeSize(o.m)))
          [] OTHER ->
               SerializeItems(heap, o.items, 1, Len(o.items),
                   Push(st, EmitCount(I_SMALL_OBJECT, I_LARGE_OBJECT, Len(o.items) \div 2)))

_serialize(heap, data, st) ==
    IF st.thrown THEN st ELSE
    CASE data.t = "number" /\ data.n = 0 -> Push(st, C(I_ZERO))
      [] data.t = "null" -> Push(st, C(I_NULL))
      [] data.t = "undefined" -> Push(st, C(I_UNDEFINED))
      [] data.t = "string" ->
           Push(st, EmitCount(I_STRING_SMALL, I_STRING_LARGE, Len(data.s)) \o data.s)
      [] data.t = "number" /\ data.n # 0 -> Push(st, EmitInteger(data.n))
      [] data.t = "float" ->
           Push(st, C(I_FLOAT) \o serializeSize(Len(data.s)) \o data.s)
      [] data.t = "boolean" ->
           Push(st, IF data.n = 1 THEN C(I_BOOL_TRUE) ELSE C(I_BOOL_FALSE))
      [] data.t = "ref" ->
           LET o == heap[data.n]
           IN  IF o.k = "regexp"
               THEN _serialize(heap, o.items[2],
                        _serialize(heap, o.items[1], Push(st, C(I_REGEXP))))
               ELSE IF o.k = "date"
               THEN EmitDate(_serialize(heap, o.items[1], st))
               ELSE IF data.n \in DOMAIN st.refs
               THEN Push(st, C(I_REFERENCE) \o serializeSize(st.refs[data.n]))
               ELSE SerializeComposite(heap, data.n, RememberReference(st, data.n))


\* the plain form: lines 1040-1045 of serialize
SerializePlain(heap, data) ==
    MAGICPREFIX \o _serialize(heap, data, WriteStart).buf


(***************************************************************************)
(* Decoding a byte buffer.  Each returns [bytes, thrown, loops].           *)
(***************************************************************************)
Min(a, b) == IF a < b THEN a ELSE b

\* str.slice(b, e) for b, e >= 0 or NaN
Slice(str, b, e) ==
    LET bb == IF b = NaN THEN 0 ELSE Min(b, Len(str))
        ee == IF e = NaN THEN 0 ELSE Min(e, Len(str))
    IN  IF bb >= ee THEN << >> ELSE SubSeq(str, bb + 1, ee)

\* the four bytes stored by uint32arr[j] = v, with v the sum of digit * 88^i;
\* 88^4 = 915 * 65536 + 4096
DenseWordBytes(str, i) ==
    With([d \in {[j \in 0..4 |-> charCodeToInt(charCodeAt(str, i + j))]} |->
        IF \E j \in 0..4 : d[j] = Undefined THEN << 0, 0, 0, 0 >>
        ELSE With([y \in {d[0] + 88 * d[1] + 7744 * d[2] + 681472 * d[3] + 4096 * d[4]} |->
            LET lo == y % 65536
                hi == ((y \div 65536) + 915 * d[4]) % 65536
            IN  << lo % 256, lo \div 256, hi % 256, hi \div 256 >>])])

\* words read at str positions i, i + 5, ..., below n
DenseWordsBytes(str, i, n) ==
    LET count == IF n > i THEN (n - i + 4) \div 5 ELSE 0
    IN  Flatten([j \in 1..count |-> DenseWordBytes(str, i + 5 * (j - 1))], 1, count)

denseArrayBufferFromStr(base88str, arrbuf) ==
    IF base88str.t # "string" THEN [bytes |-> arrbuf, thrown |-> TRUE, loops |-> FALSE]
    ELSE
    LET str == base88str.s
        end == Len(str)
        m == end % 5
        n == end - m
        uin32len == n \div 5
    IN  IF uin32len * 4 > Len(arrbuf) THEN [bytes |-> arrbuf, thrown |-> TRUE, loops |-> FALSE]
        ELSE With([words \in {WriteBytes(arrbuf, 0, DenseWordsBytes(str, 0, n))} |->
            IF m = 0 THEN [bytes |-> words, thrown |-> FALSE, loops |-> FALSE]
            ELSE With([d \in {<< charCodeToInt(charCodeAt(str, n)),
                                 charCodeToInt(charCodeAt(str, n + 1)),
                                 IF m > 2 THEN charCodeToInt(charCodeAt(str, n + 2)) ELSE 0,
                                 IF m > 3 THEN charCodeToInt(charCodeAt(str, n + 3)) ELSE 0 >>} |->
                With([v \in {IF \E i \in 1..4 : d[i] = Undefined THEN 0
                             ELSE d[1] + 88 * d[2] + 7744 * d[3] + 681472 * d[4]} |->
                    [bytes |-> WriteBytes(words, uin32len * 4,
                                   << v % 256, (v \div 256) % 256, (v \div 65536) % 256 >>),
                     thrown |-> FALSE, loops |-> FALSE]])])])

\* one item of the sparse form read at p: [n, p, loops, hit]; hit = FALSE when
\* the type matches no case and nothing is stored
SparseRead(str, p) ==
    With([type \in {charCodeToInt(charCodeAt(str, p))} |->
    With([q \in {PtrAdd(p, 1)} |->
        CASE type = I_ZERO -> [n |-> 0, p |-> q, loops |-> FALSE, hit |-> FALSE]
          [] type \in {I_INTEGER_SMALL_POS, I_INTEGER_SMALL_NEG} ->
               With([d \in {charCodeToInt(charCodeAt(str, q))} |->
                   [n |-> IF d = Undefined THEN 0
                          ELSE IF type = I_INTEGER_SMALL_POS THEN d ELSE -d,
                    p |-> PtrAdd(q, 1), loops |-> FALSE, hit |-> TRUE]])
          [] type \in {I_INTEGER_LARGE_POS, I_INTEGER_LARGE_NEG} ->
               With([sz \in {deserializeSize(str, q)} |->
                   [n |-> IF sz.n = NaN THEN 0
                          ELSE IF type = I_INTEGER_LARGE_POS THEN sz.n ELSE -sz.n,
                    p |-> sz.p, loops |-> sz.loops, hit |-> TRUE]])
          [] OTHER -> [n |-> 0, p |-> q, loops |-> FALSE, hit |-> FALSE]])])

\* one turn of a loop of sparseArrayBufferFromStr: f = [bytes, p, i, thrown,
\* loops] with i the index of the word or byte to store
SparseStep(str, f, width) ==
    With([r \in {SparseRead(str, f.p)} |->
        IF r.loops THEN [f EXCEPT !.p = r.p, !.loops = TRUE]
        ELSE [f EXCEPT !.p = r.p, !.i = f.i + 1,
                       !.bytes = IF r.hit
                                 THEN WriteBytes(f.bytes, f.i * width,
                                          IF width = 4 THEN Int32Bytes(r.n)
                                          ELSE << r.n % 256 >>)
                                 ELSE f.bytes]])

\* count turns of the loop
RECURSIVE SparseTurns(_, _, _, _)
SparseTurns(str, f, width, count) ==
    IF f.loops \/ count <= 0 THEN f
    ELSE IF count = 1 THEN SparseStep(str, f, width)
    ELSE LET half == count \div 2
             f1 == SparseTurns(str, f, width, half)
         IN  IF f1.loops THEN f1 ELSE SparseTurns(str, f1, width, count - half)

\* the two loops of sparseArrayBufferFromStr: i counts words, then bytes
SparseFill(str, p, bytes, i, n, width) ==
    SparseTurns(str, [bytes |-> bytes, p |-> p, i |-> i, thrown |-> FALSE, loops |-> FALSE],
                width, n - i)

sparseArrayBufferFromStr(strval, arrbuf) ==
    IF strval.t # "string" THEN [bytes |-> arrbuf, thrown |-> TRUE, loops |-> FALSE]
    ELSE
    With([sz \in {deserializeSize(strval.s, 0)} |->
        LET str == strval.s
            end == IF sz.n = NaN THEN 0 ELSE sz.n
            int32len == end \div 4
            int8len == end % 4
        IN  IF sz.loops THEN [bytes |-> arrbuf, thrown |-> FALSE, loops |-> TRUE]
            ELSE IF 4 * int32len > Len(arrbuf)
            THEN [bytes |-> arrbuf, thrown |-> TRUE, loops |-> FALSE]
            ELSE
            With([words \in {SparseFill(str, sz.p, SubSeq(arrbuf, 1, 4 * int32len),
                                        0, int32len, 4)} |->
                IF words.loops THEN [bytes |-> arrbuf, thrown |-> FALSE, loops |-> TRUE]
                ELSE IF int8len = 0
                THEN [bytes |-> WriteBytes(arrbuf, 0, words.bytes),
                      thrown |-> FALSE, loops |-> FALSE]
                ELSE IF end > Len(arrbuf)
                THEN [bytes |-> arrbuf, thrown |-> TRUE, loops |-> FALSE]
                ELSE
                With([tail \in {SparseFill(str, words.p,
                                           SubSeq(arrbuf, end - int8len + 1, end),
                                           0, int8len, 1)} |->
                    IF tail.loops THEN [bytes |-> arrbuf, thrown |-> FALSE, loops |-> TRUE]
                    ELSE [bytes |-> WriteBytes(WriteBytes(arrbuf, 0, words.bytes),
                                               end - int8len, tail.bytes),
                          thrown |-> FALSE, loops |-> FALSE]])])])


(***************************************************************************)
(* _deserialize: rs = [str, ptr, end, refs, rc, heap, val, n, thrown,      *)
(* loops] is readStr, readPtr, readEnd, readRefs, refCounter, the objects  *)
(* created so far, the value returned, the size read last, and whether an  *)
(* exception was thrown or a loop never ends                               *)
(***************************************************************************)
Stopped(rs) == rs.thrown \/ rs.loops

Return(rs, v) == [rs EXCEPT !.val = v]

\* charCodeToInt[readStr.charCodeAt(readPtr++)]
ReadChar(rs) ==
    [rs EXCEPT !.n = charCodeToInt(charCodeAt(rs.str, rs.ptr)), !.ptr = PtrAdd(rs.ptr, 1)]

ReadNumeral(rs) ==
    With([r \in {deserializeSize(rs.str, rs.ptr)} |->
        [rs EXCEPT !.n = r.n, !.ptr = r.p, !.loops = r.loops]])

ReadCount(rs, small) == IF small THEN ReadChar(rs) ELSE ReadNumeral(rs)

NumVal(n) == IF n = NaN THEN VNaN ELSE VInt(n)

\* const out = ...: a new object, whose identity is the next heap index
Alloc(rs, obj) == [rs EXCEPT !.heap = Append(rs.heap, obj)]

\* readRefs.set(refCounter++, out)
RegisterReadRef(rs, addr) ==
    [rs EXCEPT !.refs = (rs.rc :> addr) @@ rs.refs, !.rc = rs.rc + 1]

\* readRefs.get(ref)
LookupReadRef(rs, ref) ==
    IF ref \in DOMAIN rs.refs THEN VRef(rs.refs[ref]) ELSE VUndef

\* a property key: the key converted to a string
KeyString(k) ==
    CASE k.t = "string" -> k.s
      [] k.t = "null" -> << 110, 117, 108, 108 >>
      [] OTHER -> UndefinedText

\* position of key k among the keys of an object (string keys) or a map, 0 if new
KeyIndex(items, k) ==
    LET hits == { i \in 1..(Len(items) \div 2) : items[2 * i - 1] = k }
    IN  IF hits = {} THEN 0 ELSE CHOOSE i \in hits : TRUE

\* out[k] = v and out.set(k, v)
PutEntry(items, k, v) ==
    With([i \in {KeyIndex(items, k)} |->
        IF i = 0 THEN items \o << k, v >> ELSE [items EXCEPT ![2 * i] = v]])

\* out.add(v)
AddMember(items, v) ==
    IF \E i \in 1..Len(items) : items[i] = v THEN items ELSE Append(items, v)

AddItem(rs, addr, kind, k, v) ==
    [rs EXCEPT !.heap[addr].items =
        CASE kind = "array" -> Append(@, v)
          [] kind = "set" -> AddMember(@, v)
          [] kind = "map" -> PutEntry(@, k, v)
          [] OTHER -> PutEntry(@, VStr(KeyString(k)), v)]

\* new ArrayBuffer(byteLength, options)
NewArrayBuffer(rs, byteLength, maxByteLength) ==
    LET len == IF byteLength = NaN THEN 0 ELSE byteLength
        hasMax == maxByteLength.t = "number" /\ maxByteLength.n # 0
                    /\ maxByteLength.n # byteLength
    IN  IF hasMax /\ maxByteLength.n < len THEN [rs EXCEPT !.thrown = TRUE]
        ELSE Alloc(rs, BufObj(ZeroBytes(len), IF hasMax THEN maxByteLength.n ELSE len))

RECURSIVE _deserialize(_)
RECURSIVE DeserializeItems(_, _, _, _)
RECURSIVE DeserializeItem(_, _, _)

\* one turn of while ( size-- ) { ... }
DeserializeItem(rs, addr, kind) ==
    With([r1 \in {_deserialize(rs)} |->
        IF Stopped(r1) THEN r1
        ELSE IF kind \in {"array", "set"} THEN AddItem(r1, addr, kind, VUndef, r1.val)
        ELSE With([r2 \in {_deserialize(r1)} |->
                 IF Stopped(r2) THEN r2 ELSE AddItem(r2, addr, kind, r1.val, r2.val)])])

\* while ( size-- ) { ... }
DeserializeItems(rs, addr, kind, size) ==
    IF Stopped(rs) \/ size = NaN \/ size <= 0 THEN rs
    ELSE IF size = 1 THEN DeserializeItem(rs, addr, kind)
    ELSE With([r1 \in {DeserializeItems(rs, addr, kind, size \div 2)} |->
             IF Stopped(r1) THEN r1
             ELSE DeserializeItems(r1, addr, kind, size - (size \div 2))])

DeserializeContainer(rs0, kind, small) ==
    With([addr \in {Len(rs0.heap) + 1} |->
    With([r2 \in {ReadCount(Alloc(rs0, Obj(kind, << >>)), small)} |->
        IF Stopped(r2) THEN r2
        ELSE With([r3 \in {DeserializeItems(r2, addr, kind, r2.n)} |->
                 IF Stopped(r3) THEN r3
                 ELSE Return(RegisterReadRef(r3, addr), VRef(addr))])])])

DeserializeArrayBuffer(rs0) ==
    With([r1 \in {ReadNumeral(rs0)} |->
        IF Stopped(r1) THEN r1 ELSE
    With([r2 \in {_deserialize(r1)} |->
        IF Stopped(r2) THEN r2 ELSE
    With([r3 \in {NewArrayBuffer(r2, r1.n, r2.val)} |->
        IF Stopped(r3) THEN r3 ELSE
    With([r4 \in {_deserialize(r3)} |->
        IF Stopped(r4) THEN r4 ELSE
    With([r5 \in {_deserialize(r4)} |->
        IF Stopped(r5) THEN r5 ELSE
    With([addr \in {Len(r3.heap)} |->
    With([filled \in {IF Truthy(r4.val)
                      THEN denseArrayBufferFromStr(r5.val, r5.heap[addr].bytes)
                      ELSE sparseArrayBufferFromStr(r5.val, r5.heap[addr].bytes)} |->
        IF filled.thrown \/ filled.loops
        THEN [r5 EXCEPT !.thrown = filled.thrown, !.loops = filled.loops]
        ELSE Return(RegisterReadRef([r5 EXCEPT !.heap[addr].bytes = filled.bytes], addr),
                    VRef(addr))])])])])])])])

\* new ctor(arrayBuffer, byteOffset, length); without a buffer a typed array
\* is created empty, over a buffer of its own, and a DataView throws
DeserializeView(rs0, type) ==
    With([r1 \in {ReadNumeral(rs0)} |->
        IF Stopped(r1) THEN r1 ELSE
    With([r2 \in {ReadNumeral(r1)} |->
        IF Stopped(r2) THEN r2 ELSE
    With([r3 \in {_deserialize(r2)} |->
        IF Stopped(r3) THEN r3 ELSE
        LET byteOffset == r1.n
            length == r2.n
            arrayBuffer == r3.val
            isBuf == arrayBuffer.t = "ref" /\ r3.heap[arrayBuffer.n].k = "arraybuffer"
        IN  IF (isBuf /\ (byteOffset = NaN \/ length = NaN
                            \/ byteOffset + length > Len(r3.heap[arrayBuffer.n].bytes)))
                 \/ (~isBuf /\ type = I_DATAVIEW)
            THEN [r3 EXCEPT !.thrown = TRUE]
            ELSE IF isBuf
            THEN Return(RegisterReadRef(Alloc(r3, ViewObj(type, arrayBuffer, byteOffset, length)),
                                        Len(r3.heap) + 1),
                        VRef(Len(r3.heap) + 1))
            ELSE Return(RegisterReadRef(
                            Alloc(Alloc(r3, BufObj(<< >>, 0)),
                                  ViewObj(type, VRef(Len(r3.heap) + 1), 0, 0)),
                            Len(r3.heap) + 2),
                        VRef(Len(r3.heap) + 2))])])])

_deserialize(rs0) ==
    IF Stopped(rs0) THEN rs0
    ELSE IF rs0.ptr # NaN /\ rs0.ptr >= rs0.end THEN Return(rs0, VUndef)
    ELSE
    With([rt \in {ReadChar(rs0)} |->
    With([type \in {rt.n} |->
        CASE type \in {I_STRING_SMALL, I_STRING_LARGE, I_FLOAT} ->
               With([r1 \in {ReadCount(rt, type = I_STRING_SMALL)} |->
                   IF Stopped(r1) THEN r1
                   ELSE With([r2 \in {[r1 EXCEPT !.ptr = PtrAdd(r1.ptr, r1.n)]} |->
                       Return(r2, IF type = I_FLOAT
                                  THEN VFloat(Slice(r2.str, r1.ptr, r2.ptr))
                                  ELSE VStr(Slice(r2.str, r1.ptr, r2.ptr)))])])
          [] type = I_ZERO -> Return(rt, VInt(0))
          [] type \in {I_INTEGER_SMALL_POS, I_INTEGER_SMALL_NEG} ->
               With([r1 \in {ReadChar(rt)} |->
                   Return(r1, IF type = I_INTEGER_SMALL_POS
                              THEN IF r1.n = Undefined THEN VUndef ELSE VInt(r1.n)
                              ELSE IF r1.n = Undefined THEN VNaN ELSE VInt(-r1.n))])
          [] type \in {I_INTEGER_LARGE_POS, I_INTEGER_LARGE_NEG} ->
               With([r1 \in {ReadNumeral(rt)} |->
                   Return(r1, IF type = I_INTEGER_LARGE_POS THEN NumVal(r1.n)
                              ELSE IF r1.n = NaN THEN VNaN ELSE VInt(-r1.n))])
          [] type = I_BOOL_FALSE -> Return(rt, VBool(FALSE))
          [] type = I_BOOL_TRUE -> Return(rt, VBool(TRUE))
          [] type = I_NULL -> Return(rt, VNull)
          [] type = I_UNDEFINED -> Return(rt, VUndef)
          [] type = I_REGEXP ->
               With([r1 \in {_deserialize(rt)} |->
                   IF Stopped(r1) THEN r1 ELSE
               With([r2 \in {_deserialize(r1)} |->
                   IF Stopped(r2) THEN r2
                   ELSE Return(Alloc(r2, Obj("regexp", << r1.val, r2.val >>)),
                               VRef(Len(r2.heap) + 1))])])
          [] type = I_DATE ->
               With([r1 \in {_deserialize(rt)} |->
                   IF Stopped(r1) THEN r1
                   ELSE Return(Alloc(r1, DateObj(r1.val)), VRef(Len(r1.heap) + 1))])
          [] type = I_REFERENCE ->
               With([r1 \in {ReadNumeral(rt)} |->
                   IF Stopped(r1) THEN r1 ELSE Return(r1, LookupReadRef(r1, r1.n))])
          [] type \in {I_SMALL_OBJECT, I_LARGE_OBJECT} ->
               DeserializeContainer(rt, "object", type = I_SMALL_OBJECT)
          [] type \in {I_ARRAY_SMALL, I_ARRAY_LARGE} ->
               DeserializeContainer(rt, "array", type = I_ARRAY_SMALL)
          [] type \in {I_SET_SMALL, I_SET_LARGE} ->
               DeserializeContainer(rt, "set", type = I_SET_SMALL)
          [] type \in {I_MAP_SMALL, I_MAP_LARGE} ->
               DeserializeContainer(rt, "map", type = I_MAP_SMALL)
          [] type = I_ARRAYBUFFER -> DeserializeArrayBuffer(rt)
          [] type \in I_INT8ARRAY..I_DATAVIEW -> DeserializeView(rt, type)
          [] OTHER -> Return([rt EXCEPT !.ptr = FAILMARK], VUndef)])])


(***************************************************************************)
(* LZ4 block codec (class LZ4BlockJS), on byte sequences                   *)
(***************************************************************************)
\* the value hashTable.fill() stores: no position
HashEmpty == -65536
MaxOffset == 65536

\* (sequence * 0x9E37 & 0xFFFF) + (sequence * 0x79B1 >>> 16) & 0xFFFF for the
\* 32-bit sequence hi * 65536 + lo, computed without leaving 32 bits
HashOf(lo, hi) ==
    LET a == lo % 256
        b == lo \div 256
        x == (a * 40503 + 256 * ((b * 40503) % 256)) % 65536
        y == (((lo * 31153) \div 65536) + hi * 31153) % 65536
    IN  (x + y) % 65536

HashAt(iBuf, iPos) ==
    HashOf(iBuf[iPos + 1] + 256 * iBuf[iPos + 2], iBuf[iPos + 3] + 256 * iBuf[iPos + 4])

HashGet(hashTable, hash) ==
    IF hash \in DOMAIN hashTable THEN hashTable[hash] ELSE HashEmpty

Same4(iBuf, p, q) ==
    /\ iBuf[p + 1] = iBuf[q + 1]
    /\ iBuf[p + 2] = iBuf[q + 2]
    /\ iBuf[p + 3] = iBuf[q + 3]
    /\ iBuf[p + 4] = iBuf[q + 4]

\* one turn of the match-finding loop: f = [iPos, refPos, hashTable, found]
FindStep(iBuf, f) ==
    With([hash \in {HashAt(iBuf, f.iPos)} |->
    With([refPos \in {HashGet(f.hashTable, hash)} |->
    With([ht \in {(hash :> f.iPos) @@ f.hashTable} |->
        IF f.iPos - refPos < MaxOffset /\ Same4(iBuf, refPos, f.iPos)
        THEN [f EXCEPT !.refPos = refPos, !.hashTable = ht, !.found = TRUE]
        ELSE [f EXCEPT !.iPos = f.iPos + 1, !.refPos = refPos, !.hashTable = ht]])])])

\* count turns of the match-finding loop, or fewer when a match is found
RECURSIVE FindTurns(_, _, _)
FindTurns(iBuf, f, count) ==
    IF f.found \/ count <= 0 THEN f
    ELSE IF count = 1 THEN FindStep(iBuf, f)
    ELSE With([f1 \in {FindTurns(iBuf, f, count \div 2)} |->
             IF f1.found THEN f1 ELSE FindTurns(iBuf, f1, count - (count \div 2))])

\* the match-finding loop: while ( iPos <= lastMatchPos )
FindMatch(iBuf, iPos, hashTable, lastMatchPos) ==
    FindTurns(iBuf, [iPos |-> iPos, refPos |-> 0, hashTable |-> hashTable, found |-> FALSE],
              lastMatchPos - iPos + 1)

\* while ( iPos < lastLiteralPos && iBuf[iPos] === iBuf[refPos] ): iPos after
\* the loop, the first position that differs or lastLiteralPos
ExtendMatch(iBuf, iPos, refPos, lastLiteralPos) ==
    IF iPos >= lastLiteralPos THEN iPos
    ELSE With([differ \in {{j \in 0..(lastLiteralPos - iPos - 1) :
                               iBuf[iPos + j + 1] # iBuf[refPos + j + 1]}} |->
             IF differ = {} THEN lastLiteralPos
             ELSE iPos + (CHOOSE j \in differ : \A k \in differ : j <= k)])

\* a length past the token: 255, 255, ..., remainder
RECURSIVE LengthBytes(_)
LengthBytes(l) == IF l >= 255 THEN << 255 >> \o LengthBytes(l - 255) ELSE << l >>

\* token and length of literals
TokenBytes(lLen, token) ==
    IF lLen >= 15 THEN << 240 + token >> \o LengthBytes(lLen - 15)
    ELSE << lLen * 16 + token >>

\* one turn of the sequence-finding loop: e = [iPos, anchorPos, hashTable,
\* oBuf, done]; the last turn writes the last sequence, of literals only
EncodeStep(iBuf, e) ==
    LET iLen == Len(iBuf)
        lastMatchPos == iLen - 12
        lastLiteralPos == iLen - 5
    IN
    With([f \in {FindMatch(iBuf, e.iPos, e.hashTable, lastMatchPos)} |->
        IF f.iPos > lastMatchPos
        THEN [e EXCEPT !.done = TRUE,
                       !.oBuf = @ \o TokenBytes(iLen - e.anchorPos, 0)
                                  \o SubSeq(iBuf, e.anchorPos + 1, iLen)]
        ELSE
        With([iPos \in {ExtendMatch(iBuf, f.iPos + 4, f.refPos + 4, lastLiteralPos)} |->
            LET lLen == f.iPos - e.anchorPos
                mLen == iPos - f.iPos
                mOffset == f.iPos - f.refPos
                token == IF mLen < 19 THEN mLen - 4 ELSE 15
            IN  [e EXCEPT !.iPos = iPos, !.anchorPos = iPos, !.hashTable = f.hashTable,
                          !.oBuf = @ \o TokenBytes(lLen, token)
                                     \o SubSeq(iBuf, e.anchorPos + 1, e.anchorPos + lLen)
                                     \o << mOffset % 256, (mOffset \div 256) % 256 >>
                                     \o (IF mLen >= 19 THEN LengthBytes(mLen - 19)
                                         ELSE << >>)]])])

RECURSIVE EncodeTurns(_, _, _)
EncodeTurns(iBuf, e, count) ==
    IF e.done \/ count <= 0 THEN e
    ELSE IF count = 1 THEN EncodeStep(iBuf, e)
    ELSE With([e1 \in {EncodeTurns(iBuf, e, count \div 2)} |->
             IF e1.done THEN e1 ELSE EncodeTurns(iBuf, e1, count - (count \div 2))])

\* the sequence-finding loop; every turn but the last moves iPos forward, so
\* there are at most Len(iBuf) + 1 turns; returns the output bytes
EncodeLoop(iBuf, iPos0, anchorPos, hashTable, oBuf) ==
    EncodeTurns(iBuf, [iPos |-> iPos0, anchorPos |-> anchorPos, hashTable |-> hashTable,
                       oBuf |-> oBuf, done |-> FALSE], Len(iBuf) + 1).oBuf

NoHashes == [h \in {} |-> 0]

encodeBlock(iBuf) == EncodeLoop(iBuf, 0, 0, NoHashes, << >>)

\* iBuf[i]: Undefined past the end
ByteOrUndefined(iBuf, i) == IF i >= 0 /\ i < Len(iBuf) THEN iBuf[i + 1] ELSE Undefined

\* the for (;;) loops that read a long length: [clen, iPos]; clen is NaN
\* when the input ends inside the length
RECURSIVE ReadLength(_, _, _)
ReadLength(iBuf, iPos, clen) ==
    LET l == ByteOrUndefined(iBuf, iPos)
    IN  IF l = 255 THEN ReadLength(iBuf, iPos + 1, clen + 255)
        ELSE [clen |-> IF l = Undefined THEN NaN ELSE clen + l, iPos |-> iPos + 1]

\* copy match: oBuf[oPos++] = oBuf[mPos++], n times; the bytes copied repeat
\* with period oPos - mPos when the match overlaps what it writes
CopyMatch(oBuf, mPos, n) ==
    oBuf \o [j \in 1..n |-> oBuf[mPos + ((j - 1) % (Len(oBuf) - mPos)) + 1]]

\* literals copied from iBuf; a read past the end stores 0
CopyLiterals(iBuf, iPos, n) == [i \in 1..n |-> ByteAt(iBuf, iPos + i - 1)]

\* the condition under which decodeBlock gives up
BadOffset(mOffset, oPos) == mOffset = 0 \/ mOffset > oPos

\* one turn of the while loop of decodeBlock, with every byte written kept in
\* oBuf: d = [iPos, oBuf, ok, done]
DecodeStep(iBuf, d) ==
    IF d.iPos >= Len(iBuf) THEN [d EXCEPT !.done = TRUE]
    ELSE
    With([token \in {iBuf[d.iPos + 1]} |->
    With([ll \in {IF token \div 16 = 15 THEN ReadLength(iBuf, d.iPos + 1, 15)
                  ELSE [clen |-> token \div 16, iPos |-> d.iPos + 1]} |->
    With([n \in {IF ll.clen = NaN THEN 0 ELSE ll.clen} |->
    With([o1 \in {IF token \div 16 = 0 THEN d.oBuf
                  ELSE d.oBuf \o CopyLiterals(iBuf, ll.iPos, n)} |->
    With([iPos1 \in {IF token \div 16 = 0 THEN d.iPos + 1 ELSE ll.iPos + n} |->
        IF token \div 16 # 0 /\ iPos1 = Len(iBuf) THEN [d EXCEPT !.done = TRUE, !.oBuf = o1]
        ELSE
        With([b \in {<< ByteOrUndefined(iBuf, iPos1), ByteOrUndefined(iBuf, iPos1 + 1) >>} |->
        With([mOffset \in {(IF b[1] = Undefined THEN 0 ELSE b[1])
                             + 256 * (IF b[2] = Undefined THEN 0 ELSE b[2])} |->
            IF BadOffset(mOffset, Len(o1)) THEN [d EXCEPT !.done = TRUE, !.ok = FALSE]
            ELSE
            With([ml \in {IF token % 16 = 15 THEN ReadLength(iBuf, iPos1 + 2, 19)
                          ELSE [clen |-> (token % 16) + 4, iPos |-> iPos1 + 2]} |->
                [d EXCEPT !.iPos = ml.iPos,
                          !.oBuf = CopyMatch(o1, Len(o1) - mOffset,
                                             IF ml.clen = NaN THEN 0 ELSE ml.clen)]])])])])])])])])

RECURSIVE DecodeTurns(_, _, _)
DecodeTurns(iBuf, d, count) ==
    IF d.done \/ count <= 0 THEN d
    ELSE IF count = 1 THEN DecodeStep(iBuf, d)
    ELSE With([d1 \in {DecodeTurns(iBuf, d, count \div 2)} |->
             IF d1.done THEN d1 ELSE DecodeTurns(iBuf, d1, count - (count \div 2))])

\* the while loop of decodeBlock; every turn moves iPos forward, so there are
\* at most Len(iBuf) + 1 turns: [ok, bytes]
DecodeLoop(iBuf, iPos0, oBuf) ==
    With([d \in {DecodeTurns(iBuf, [iPos |-> iPos0, oBuf |-> oBuf, ok |-> TRUE,
                                    done |-> FALSE], Len(iBuf) + 1)} |->
        [ok |-> d.ok, bytes |-> IF d.ok THEN d.oBuf ELSE << >>]])

\* decodeBlock(iBuf, 0, oLen) on a new instance: the first oLen bytes written,
\* over a zero-filled buffer
decodeBlock(iBuf, oLen) ==
    With([r \in {DecodeLoop(iBuf, 0, << >>)} |->
        IF ~r.ok THEN r
        ELSE [ok |-> TRUE,
              bytes |-> [i \in 1..oLen |-> IF i <= Len(r.bytes) THEN r.bytes[i] ELSE 0]]])


(***************************************************************************)
(* TextEncoder / TextDecoder (UTF-8), for character codes below 65536      *)
(***************************************************************************)
EncodeChar(c) ==
    IF c < 128 THEN << c >>
    ELSE IF c < 2048 THEN << 192 + (c \div 64), 128 + (c % 64) >>
    ELSE << 224 + (c \div 4096), 128 + ((c \div 64) % 64), 128 + (c % 64) >>

\* encoder.encode(str), from character i on
TextEncode(str, i) ==
    Flatten([j \in 1..(Len(str) - i + 1) |-> EncodeChar(str[i + j - 1])], 1, Len(str) - i + 1)

IsContinuation(b) == b >= 128 /\ b < 192

\* the character decoded at byte i and the number of bytes it takes; an
\* ill-formed sequence decodes to U+FFFD
DecodeChar(bytes, i) ==
    LET b == bytes[i]
        b1 == ByteAt(bytes, i)
        b2 == ByteAt(bytes, i + 1)
    IN  IF b < 128 THEN [c |-> b, n |-> 1]
        ELSE IF b >= 194 /\ b < 224 /\ IsContinuation(b1)
        THEN [c |-> (b - 192) * 64 + (b1 - 128), n |-> 2]
        ELSE IF b >= 224 /\ b < 240 /\ IsContinuation(b1) /\ IsContinuation(b2)
                  /\ (b > 224 \/ b1 >= 160)
        THEN [c |-> (b - 224) * 4096 + (b1 - 128) * 64 + (b2 - 128), n |-> 3]
        ELSE [c |-> 65533, n |-> 1]

\* u = [i, out]: count characters decoded from byte u.i on
RECURSIVE DecodeChars(_, _, _)
DecodeChars(bytes, u, count) ==
    IF u.i > Len(bytes) \/ count <= 0 THEN u
    ELSE IF count = 1
    THEN With([r \in {DecodeChar(bytes, u.i)} |->
             [i |-> u.i + r.n, out |-> Append(u.out, r.c)]])
    ELSE With([u1 \in {DecodeChars(bytes, u, count \div 2)} |->
             IF u1.i > Len(bytes) THEN u1
             ELSE DecodeChars(bytes, u1, count - (count \div 2))])

\* decoder.decode(bytes), from byte i on
TextDecode(bytes, i) == DecodeChars(bytes, [i |-> i, out |-> << >>], Len(bytes)).out

(***************************************************************************)
(* Synchronous API                                                         *)
(***************************************************************************)
StartsWith(s, prefix) ==
    Len(s) >= Len(prefix) /\ SubSeq(s, 1, Len(prefix)) = prefix

\* const lz4 = { size, data: new Uint8Array(uint8ArrayAfter) } and its objects
Lz4Heap(size, after) ==
    << Obj("object", << VStr(<< 115, 105, 122, 101 >>), VInt(size),
                        VStr(<< 100, 97, 116, 97 >>), VRef(2) >>),
       ViewObj(I_UINT8ARRAY, VRef(3), 0, Len(after)),
       BufObj(after, Len(after)) >>

\* the compressed form accepted up to four fifths of the plain length only
RatioAcceptedFourFifths(tLength, sLength) == 5 * tLength <= 4 * sLength

\* ratio <= 0.85, with ratio = t.length / s.length
RatioAccepted(tLength, sLength) == 100 * tLength <= 85 * sLength

\* the state of the serializer after the compressed form of the plain form s
\* is written: lines 1047-1060 of serialize
CompressedState(s) ==
    With([uint8ArrayBefore \in {TextEncode(s, 1)} |->
        _serialize(Lz4Heap(Len(uint8ArrayBefore), encodeBlock(uint8ArrayBefore)),
                   VRef(1), WriteStart)])

CompressedForm(s) == MAGICLZ4PREFIX \o CompressedState(s).buf


\* serialize(data, options) when the call before left before.writeRefs and
\* before.writeBuffer behind: [kind, out, refCounter, writeRefs, writeBuffer];
\* an exception thrown by the walk leaves the function before line 1044
serializeFrom(heap, data, opts, before) ==
    With([st \in {_serialize(heap, data, [WriteStart EXCEPT !.buf = before.writeBuffer,
                                                           !.refs = before.writeRefs])} |->
        IF st.thrown
        THEN [kind |-> "thrown", out |-> << >>, refCounter |-> st.rc,
              writeRefs |-> st.refs, writeBuffer |-> st.buf]
        ELSE
        With([s \in {MAGICPREFIX \o st.buf} |->
            IF opts.compress # TRUE
            THEN [kind |-> "returned", out |-> s, refCounter |-> st.rc,
                  writeRefs |-> NoRefs, writeBuffer |-> << >>]
            ELSE
            With([lz4 \in {CompressedState(s)} |->
            With([t \in {MAGICLZ4PREFIX \o lz4.buf} |->
                [kind |-> "returned", out |-> IF RatioAccepted(Len(t), Len(s)) THEN t ELSE s,
                 refCounter |-> lz4.rc, writeRefs |-> NoRefs, writeBuffer |-> << >>]])])])])

\* serialize(data, options) in a module whose write side is empty: out is
\* the string returned and refCounter the counter afterwards
serialize(heap, data, opts) ==
    serializeFrom(heap, data, opts, [writeRefs |-> NoRefs, writeBuffer |-> << >>])

\* obj[name] for an object created by the deserializer
Property(heap, v, name) ==
    IF v.t = "ref" /\ heap[v.n].k = "object" /\ KeyIndex(heap[v.n].items, VStr(name)) # 0
    THEN heap[v.n].items[2 * KeyIndex(heap[v.n].items, VStr(name))]
    ELSE VUndef

StartRead(s, prefix) ==
    [str |-> s, ptr |-> Len(prefix), end |-> Len(s), refs |-> NoRefs, rc |-> 1,
     heap |-> << >>, val |-> VUndef, n |-> 0, thrown |-> FALSE, loops |-> FALSE]

\* refCounter = 1; readStr = s; readEnd = s.length; readPtr = prefix.length;
\* readRefs is what the call before left in it
StartReadFrom(s, prefix, before) ==
    [StartRead(s, prefix) EXCEPT !.refs = before.readRefs, !.heap = before.readHeap]

\* what a call leaves behind and hands back; cleared: readRefs.clear() and
\* readStr = '' were reached
Outcome(kind, heap, val, rs, cleared) ==
    [kind |-> kind, heap |-> heap, val |-> val,
     readRefs |-> IF cleared THEN NoRefs ELSE rs.refs,
     readHeap |-> IF cleared THEN << >> ELSE rs.heap,
     readStr |-> IF cleared THEN << >> ELSE rs.str,
     readPtr |-> rs.ptr, readEnd |-> rs.end, refCounter |-> rs.rc]

\* the decompression step of deserialize: [kind, s, rs]
Decompress(s, before) ==
    With([rs \in {_deserialize(StartReadFrom(s, MAGICLZ4PREFIX, before))} |->
        IF rs.loops THEN [kind |-> "loops", s |-> s, rs |-> rs, cleared |-> FALSE]
        ELSE IF rs.thrown THEN [kind |-> "thrown", s |-> s, rs |-> rs, cleared |-> FALSE]
        ELSE IF rs.val.t \in {"undefined", "null"}
        THEN [kind |-> "thrown", s |-> << >>, rs |-> rs, cleared |-> TRUE]
        ELSE
        With([data \in {Property(rs.heap, rs.val, << 100, 97, 116, 97 >>)} |->
        With([size \in {Property(rs.heap, rs.val, << 115, 105, 122, 101 >>)} |->
            IF ~(data.t = "ref"
                   /\ (rs.heap[data.n].k = "arraybuffer"
                         \/ (rs.heap[data.n].k = "view" /\ rs.heap[data.n].x = I_UINT8ARRAY)))
            THEN [kind |-> "thrown", s |-> << >>, rs |-> rs, cleared |-> TRUE]
            ELSE
            With([dobj \in {rs.heap[data.n]} |->
            With([dec \in {decodeBlock(
                              IF dobj.k = "arraybuffer" THEN dobj.bytes
                              ELSE SubSeq(rs.heap[dobj.items[1].n].bytes,
                                          dobj.n + 1, dobj.n + dobj.m),
                              IF size.t = "number" THEN size.n ELSE 0)} |->
                [kind |-> "ok", s |-> IF dec.ok THEN TextDecode(dec.bytes, 1) ELSE << >>,
                 rs |-> rs, cleared |-> TRUE]])])])])])

\* the test of the magic alone, whatever the version
RecognisedAnyVersion(s) == StartsWith(s, SubSeq(MAGICPREFIX, 1, 5))

\* the prefix test that guards decoding
Recognised(s) == StartsWith(s, MAGICPREFIX)

\* the test of the failure mark when decoding is over
Failed(rs) == rs.ptr = FAILMARK

\* before: the module state when the call is made
deserialize(s0, before) ==
    With([d \in {IF StartsWith(s0, MAGICLZ4PREFIX) THEN Decompress(s0, before)
                 ELSE [kind |-> "plain", s |-> s0]} |->
        IF d.kind \notin {"ok", "plain"}
        THEN Outcome(d.kind, << >>, VUndef, d.rs, d.cleared)
        ELSE IF ~Recognised(d.s)
        THEN IF d.kind = "ok" THEN Outcome("returned", << >>, VUndef, d.rs, TRUE)
             ELSE [kind |-> "returned", heap |-> << >>, val |-> VUndef,
                   readRefs |-> before.readRefs, readHeap |-> before.readHeap,
                   readStr |-> before.readStr,
                   readPtr |-> before.readPtr, readEnd |-> before.readEnd,
                   refCounter |-> before.refCounter]
        ELSE
        With([rs \in {_deserialize(IF d.kind = "ok" THEN StartRead(d.s, MAGICPREFIX)
                                   ELSE StartReadFrom(d.s, MAGICPREFIX, before))} |->
            IF rs.loops THEN Outcome("loops", << >>, VUndef, rs, FALSE)
            ELSE IF rs.thrown THEN Outcome("thrown", << >>, VUndef, rs, FALSE)
            ELSE IF Failed(rs) THEN Outcome("returned", << >>, VUndef, rs, TRUE)
            ELSE Outcome("returned", rs.heap, rs.val, rs, TRUE)])])

\* the test of the plain prefix alone
canDeserializePlain(arg) == arg.isString /\ StartsWith(arg.s, MAGICPREFIX)

\* arg = [isString, s]
canDeserialize(arg) ==
    arg.isString /\ (StartsWith(arg.s, MAGICLZ4PREFIX) \/ StartsWith(arg.s, MAGICPREFIX))


(***************************************************************************)
(* Configuration (part_001:1095-1123).  The argument of setConfig is the   *)
(* sequence of its own properties [key, val], in the order of definition   *)
(***************************************************************************)
defaultConfig == [maxThreadCount |-> VInt(2), threadTTL |-> VInt(5000)]

\* validateConfig[key](val)
validateConfig(key, val) ==
    CASE key = "maxThreadCount" -> val.t = "number" /\ val.n >= 1
      [] key = "threadTTL" -> val.t = "number" /\ val.n >= 0

\* typeof val
typeof(val) ==
    CASE val.t \in {"number", "float", "NaN"} -> "number"
      [] val.t \in {"null", "ref"} -> "object"
      [] OTHER -> val.t

\* Object.keys(config)
ObjectKeys(obj) == [i \in 1..Len(obj) |-> obj[i].key]

\* the names a for ... in loop over an array of strings binds: the indices
\* of the array, as strings
IndexNames == << "0", "1", "2", "3" >>
ForIn(array) == [i \in 1..Len(array) |-> IndexNames[i]]

\* config[key]
GetProperty(obj, key) ==
    IF \E i \in 1..Len(obj) : obj[i].key = key
    THEN obj[CHOOSE i \in 1..Len(obj) : obj[i].key = key].val
    ELSE VUndef

\* one turn of the loop of setConfig (lines 1117-1121)
SetConfigKey(key, arg, current) ==
    IF key \notin DOMAIN defaultConfig THEN current
    ELSE With([val \in {GetProperty(arg, key)} |->
             IF typeof(val) # typeof(defaultConfig[key]) THEN current
             ELSE IF ~validateConfig(key, val) THEN current
             ELSE [current EXCEPT ![key] = val]])

RECURSIVE SetConfigLoop(_, _, _, _)
SetConfigLoop(keys, i, arg, current) ==
    IF i > Len(keys) THEN current
    ELSE SetConfigLoop(keys, i + 1, arg, SetConfigKey(keys[i], arg, current))

\* setConfig(arg): currentConfig afterwards
setConfig(arg, current) == SetConfigLoop(ForIn(ObjectKeys(arg)), 1, arg, current)

\* getConfig(): a copy of currentConfig
getConfig(current) == [key \in DOMAIN defaultConfig |-> current[key]]

\* the configuration and the pool after the module is loaded (lines 1111,
\* 1228-1229); no call made, no Thread constructed
PoolInit ==
    /\ config = << >>
    /\ currentConfig = defaultConfig
    /\ pool = << >>
    /\ thread = << >>
    /\ worker = << >>
    /\ calls = << >>
    /\ now = 0

(***************************************************************************)
(* The caller: one call of serialize, then one call of deserialize on the  *)
(* string returned; or a call of deserialize / canDeserialize on a string  *)
(* received from storage                                                   *)
(***************************************************************************)
NoResult == [kind |-> "none", heap |-> << >>, val |-> VUndef]
NoLz == [input |-> << >>, encoded |-> << >>, ok |-> TRUE, decoded |-> << >>]

\* nothing was stored, and cacheStorage is not used
StoreInit ==
    /\ caches = [open |-> FALSE, entries |-> NoRefs]
    /\ storageLocal = NoRefs

\* the module state after the module is loaded (lines 258-266)
ModuleInit ==
    /\ writeRefs = NoRefs
    /\ writeBuffer = << >>
    /\ readRefs = NoRefs
    /\ readHeap = << >>
    /\ readStr = << >>
    /\ readPtr = 0
    /\ readEnd = 0
    /\ refCounter = 1

\* serialize(inVal, options)
Serialize ==
    /\ pc \in {"start", "again"}
    /\ inVal.t # "repeat"
    /\ \E r \in {serializeFrom(inHeap, inVal, options,
                       [writeRefs |-> writeRefs, writeBuffer |-> writeBuffer])} :
           /\ wire' = IF r.kind = "returned" THEN [isString |-> TRUE, s |-> r.out] ELSE wire
           /\ result' = IF r.kind = "returned" THEN result
                        ELSE [kind |-> "thrown", heap |-> << >>, val |-> VUndef]
           /\ refCounter' = r.refCounter
           /\ writeRefs' = r.writeRefs
           /\ writeBuffer' = r.writeBuffer
           /\ pc' = IF pc = "start"
                    THEN (IF r.kind = "returned" THEN "serialized" ELSE "threw")
                    ELSE (IF r.kind = "returned" THEN "serializedAgain" ELSE "threwAgain")
    /\ UNCHANGED << scenario, inHeap, inVal, options, lz,
                    readRefs, readHeap, readStr, readPtr, readEnd, poolvars >>

\* deserialize(wire); a value that is not a string has no startsWith
Deserialize ==
    /\ pc \in {"serialized", "received"}
    /\ \E before \in {[readRefs |-> readRefs, readHeap |-> readHeap, readStr |-> readStr,
                       readPtr |-> readPtr, readEnd |-> readEnd,
                       refCounter |-> refCounter]} :
       \E o \in {IF wire.isString THEN deserialize(wire.s, before)
                 ELSE [kind |-> "thrown", heap |-> << >>, val |-> VUndef] @@ before} :
           /\ result' = [kind |-> o.kind, heap |-> o.heap, val |-> o.val]
           /\ readRefs' = o.readRefs
           /\ readHeap' = o.readHeap
           /\ readStr' = o.readStr
           /\ readPtr' = o.readPtr
           /\ readEnd' = o.readEnd
           /\ refCounter' = o.refCounter
    /\ pc' = "deserialized"
    /\ UNCHANGED << scenario, inHeap, inVal, options, wire, lz, writeRefs, writeBuffer,
                    poolvars >>

\* canDeserialize(wire)
CanDeserialize ==
    /\ pc = "received"
    /\ result' = [kind |-> "returned", heap |-> << >>, val |-> VBool(canDeserialize(wire))]
    /\ pc' = "asked"
    /\ UNCHANGED << scenario, inHeap, inVal, options, wire, lz, modvars, poolvars >>

(***************************************************************************)
(* Comparing values up to the identity of their objects: objects are       *)
(* renumbered in the order a walk from the root first meets them           *)
(***************************************************************************)
RECURSIVE CanonVal(_, _, _)
RECURSIVE CanonItems(_, _, _, _, _, _)

\* c = [map, out, val]; items lo..hi of the object renumbered new
CanonItems(heap, items, lo, hi, new, c) ==
    IF lo > hi THEN c
    ELSE IF lo = hi
    THEN LET c1 == CanonVal(heap, items[lo], c)
         IN  [c1 EXCEPT !.out[new].items = Append(@, c1.val)]
    ELSE LET mid == (lo + hi) \div 2
             c1 == CanonItems(heap, items, lo, mid, new, c)
         IN  IF Len(c1.out) > 0 THEN CanonItems(heap, items, mid + 1, hi, new, c1) ELSE c1

CanonVal(heap, v, c) ==
    IF v.t # "ref" THEN [c EXCEPT !.val = v]
    ELSE IF v.n \in DOMAIN c.map THEN [c EXCEPT !.val = VRef(c.map[v.n])]
    ELSE LET new == Len(c.out) + 1
             c1 == [c EXCEPT !.map = (v.n :> new) @@ c.map,
                             !.out = Append(c.out, [heap[v.n] EXCEPT !.items = << >>])]
             c2 == CanonItems(heap, heap[v.n].items, 1, Len(heap[v.n].items), new, c1)
         IN  [c2 EXCEPT !.val = VRef(new)]

Canon(heap, v) ==
    LET c == CanonVal(heap, v, [map |-> NoRefs, out |-> << >>, val |-> VUndef])
    IN  [heap |-> c.out, val |-> c.val]

\* the value decoded is the value that was encoded
RoundTrip == result.kind = "returned" /\ Canon(result.heap, result.val) = Canon(inHeap, inVal)


(***************************************************************************)
(* Values handed to serialize                                              *)
(***************************************************************************)
MaxDepth == 5

Rep(c, n) == [i \in 1..n |-> c]

IntSamples == {0, 1, -1, 87, 88, 89, -87, -88, -89, 7743, 7744, 7745, -7744,
               681472, 1000000, -1000000, 2147483647}

StrSamples == {Rep(97, n) : n \in {0, 1, 2, 87, 88, 89}}
                  \cup {<< 32 >>, << 34 >>, << 0 >>, << 92 >>, << 233 >>, << 49, 32, 50 >>}

Leaves == {VUndef, VNull, VBool(TRUE), VBool(FALSE)}
              \cup {VInt(n) : n \in IntSamples} \cup {VStr(s) : s \in StrSamples}

Kinds == {"object", "array", "set", "map"}

LeafSeq == << VInt(7), VStr(<< 120 >>), VNull, VBool(TRUE), VUndef, VInt(-88),
              VStr(<< >>), VBool(FALSE), VInt(0), VInt(7744) >>
ItemLeaf(i) == LeafSeq[(i % Len(LeafSeq)) + 1]
\* distinct keys and distinct set members
KeyOf(i) == VStr(<< 97 + (i % 26), 97 + (i \div 26) >>)
MemberOf(i) == IF i % 2 = 0 THEN VInt(i) ELSE KeyOf(i)

\* one container of n children, none of them a container
Flat(kind, n) ==
    Obj(kind,
        CASE kind = "array" -> [i \in 1..n |-> ItemLeaf(i)]
          [] kind = "set" -> [i \in 1..n |-> MemberOf(i)]
          [] kind = "map" -> [i \in 1..(2 * n) |->
                                 IF i % 2 = 1 THEN MemberOf((i + 1) \div 2)
                                 ELSE ItemLeaf(i \div 2)]
          [] OTHER -> [i \in 1..(2 * n) |->
                          IF i % 2 = 1 THEN KeyOf((i + 1) \div 2) ELSE ItemLeaf(i \div 2)])

KindSeq == << "array", "object", "map", "set" >>
KindAt(j) == KindSeq[(j % 4) + 1]
EndMark == VStr(<< 101, 110, 100 >>)

\* the children of one level of a chain of containers
NestItems(kind, j, leaf, child) ==
    CASE kind = "array" -> << leaf, child, leaf >>
      [] kind = "set" -> << leaf, child >>
      [] kind = "map" -> IF j % 2 = 0 THEN << leaf, child >> ELSE << child, leaf >>
      [] OTHER -> << VStr(<< 97 >>), leaf, VStr(<< 98 >>), child >>

\* containers nested d deep, each holding the next
Nest(d, start, leaf) ==
    [j \in 1..d |->
        Obj(KindAt(start + j),
            NestItems(KindAt(start + j), j, leaf, IF j < d THEN VRef(j + 1) ELSE EndMark))]

\* a container that holds the same object twice
TwiceItems(kind, a, b) ==
    CASE kind = "array" -> << a, b >>
      [] kind = "map" -> << VInt(1), a, VInt(2), b >>
      [] OTHER -> << VStr(<< 97 >>), a, VStr(<< 98 >>), b >>

Shared(outer, inner, n) == << Obj(outer, TwiceItems(outer, VRef(2), VRef(2))), Flat(inner, n) >>

\* [a, b, a]
SharedABA(inner) ==
    << Obj("array", << VRef(2), VRef(3), VRef(2) >>), Flat(inner, 1), Flat(inner, 2) >>

\* [x, x] with x = [[]]
SharedDeep(inner) ==
    << Obj("array", << VRef(2), VRef(2) >>), Obj("array", << VRef(3) >>), Flat(inner, 0) >>

\* a container that holds itself
Cyclic(kind) == << Obj(kind, TwiceItems(kind, VInt(5), VRef(1))) >>

\* two containers that hold each other, the second of which holds itself too
Ring(kind) ==
    << Obj(kind, TwiceItems(kind, VInt(5), VRef(2))), Obj("array", << VRef(1), VRef(2) >>) >>

TimeSamples == {0, 1, 86400000, 1000000007}

DateRoot(time) == << DateObj(VInt(time)) >>
DateChild(kind, time) == << Obj(kind, TwiceItems(kind, VRef(2), VInt(9))), DateObj(VInt(time)) >>

\* /ab/g and /x/
RegExpSamples == {Obj("regexp", << VStr(<< 97, 98 >>), VStr(<< 103 >>) >>),
                  Obj("regexp", << VStr(<< 120 >>), VStr(<< >>) >>)}

\* a container that holds one date or one regular expression twice
SharedLeaf(outer, leaf) == << Obj(outer, TwiceItems(outer, VRef(2), VRef(2))), leaf >>

Input(name, heap, val) == [scenario |-> name, heap |-> heap, val |-> val]

ValueInputs ==
    {Input("scalar", << >>, v) : v \in Leaves}
    \cup {Input("flat", << Flat(kind, n) >>, VRef(1)) :
              kind \in Kinds, n \in {0, 1, 2, 3, 87, 88, 89}}
    \cup {Input("nested", Nest(d, start, leaf), VRef(1)) :
              d \in 2..MaxDepth, start \in 0..3, leaf \in {VInt(88), VStr(<< 120 >>), VNull}}
    \cup {Input("shared", Shared(outer, inner, n), VRef(1)) :
              outer \in {"array", "object", "map"}, inner \in Kinds, n \in {0, 1}}
    \cup {Input("shared", SharedABA(inner), VRef(1)) : inner \in Kinds}
    \cup {Input("shared", SharedDeep(inner), VRef(1)) : inner \in Kinds}
    \cup {Input("cyclic", Cyclic(kind), VRef(1)) : kind \in {"array", "object", "map"}}
    \cup {Input("cyclic", Ring(kind), VRef(1)) : kind \in {"array", "object", "map"}}
    \cup {Input("sharedleaf", SharedLeaf(outer, leaf), VRef(1)) :
              outer \in {"array", "object", "map"},
              leaf \in RegExpSamples \cup {DateObj(VInt(time)) : time \in TimeSamples}}
    \cup {Input("date", DateRoot(time), VRef(1)) : time \in TimeSamples}
    \cup {Input("date", DateChild(kind, time), VRef(1)) :
              kind \in {"array", "object", "map"}, time \in TimeSamples}

\* the caller is about to serialize one of the inputs
CallerInit(inputs, compress) ==
    /\ pc = "start"
    /\ \E i \in inputs :
          /\ scenario = i.scenario
          /\ inHeap = i.heap
          /\ inVal = i.val
    /\ options \in {[compress |-> c] : c \in compress}
    /\ wire = [isString |-> TRUE, s |-> << >>]
    /\ result = NoResult
    /\ lz = NoLz
    /\ ModuleInit
    /\ StoreInit
    /\ PoolInit

InitValues == CallerInit(ValueInputs, {FALSE})
NextValues == Serialize \/ Deserialize
SpecValues == InitValues /\ [][NextValues]_vars

\* how often each object is held: by the root and by the items of all objects
Holders(heap, val, a) ==
    (IF val = VRef(a) THEN 1 ELSE 0)
    + Cardinality({<< b, i >> \in (DOMAIN heap) \X (1..200) :
                       i <= Len(heap[b].items) /\ heap[b].items[i] = VRef(a)})

\* a tree of records, lists, sets and maps: no object is held twice
IsTree(heap, val) ==
    /\ \A a \in DOMAIN heap : heap[a].k \in Kinds /\ Holders(heap, val, a) = 1
    /\ val.t = "ref" => Len(heap) > 0

\* some object is held at more than one position
IsShared(heap, val) ==
    /\ Len(heap) > 0
    /\ \A a \in DOMAIN heap : heap[a].k \in Kinds
    /\ \E a \in DOMAIN heap : Holders(heap, val, a) > 1

\* C1: a value in which one record, list, set or map is held at more than one
\* position is decoded into a value in which these positions hold one and the
\* same object, with the contents of the original
C1_SharedRoundTrip ==
    pc = "deserialized" /\ IsShared(inHeap, inVal) => RoundTrip

\* C2: a value built from strings, integers, booleans, null, undefined,
\* records, lists, sets and maps, in which no object is held twice, is decoded
\* into a structurally equal value, on both sides of the boundary at 88
C2_TreeRoundTrip ==
    pc = "deserialized" /\ IsTree(inHeap, inVal) => RoundTrip

\* a map of 88 entries has been decoded
C2_Witness ==
    /\ pc = "deserialized"
    /\ IsTree(inHeap, inVal)
    /\ inVal.t = "ref"
    /\ inHeap[1].k = "map"
    /\ Len(inHeap[1].items) = 2 * NUMSAFECHARS
    /\ result.kind = "returned"
    /\ Len(result.heap[1].items) = 2 * NUMSAFECHARS

\* what the plain form of a date is to be: the date tag, then the time
DateWire(time) ==
    MAGICPREFIX \o C(I_DATE)
        \o _serialize(<< >>, time, WriteStart).buf

\* C3: a date is encoded as the date tag followed by the encoding of its time,
\* and is decoded into a date of the same time, at top level and as a child
C3_DateRoundTrip ==
    scenario = "date" =>
        /\ pc # "start" /\ inHeap[inVal.n].k = "date"
              => wire.s = DateWire(inHeap[inVal.n].items[1])
        /\ pc = "deserialized" => RoundTrip

(***************************************************************************)
(* Byte buffers handed to serialize                                        *)
(***************************************************************************)
MaxBufLen == 6

ByteSamples == {0, 1, 255}

LongBuffers ==
    {Rep(0, n) \o tl : n \in {8, 12}, tl \in {<< >>, << 1 >>, << 0, 255 >>, << 1, 0, 0 >>}}
    \cup {<< 1, 0, 0, 0 >> \o Rep(0, n) \o tl : n \in {4, 8}, tl \in {<< >>, << 255 >>}}
    \cup {Rep(255, n) : n \in {8, 9, 11}}
    \cup {Flatten([i \in 1..n |-> << 0, 0, i, 1 >>], 1, n) \o tl :
              n \in 3..5, tl \in {<< >>, << 5 >>, << 5, 0 >>, << 0, 0, 255 >>,
                                  << 0, 0, 0, 0 >>, << 0, 0, 0, 0, 1 >>}}

BufferInputs ==
    {Input("buffer", << BufObj(b, Len(b)) >>, VRef(1)) :
         b \in UNION {[1..n -> ByteSamples] : n \in 0..MaxBufLen} \cup LongBuffers}

InitBuffers == CallerInit(BufferInputs, {FALSE})
NextBuffers == Serialize \/ Deserialize
SpecBuffers == InitBuffers /\ [][NextBuffers]_vars

\* C4: a byte buffer of any length and content is decoded into a byte buffer
\* of the same length holding the same bytes, including the 1 to 3 bytes after
\* the last full word when full words before them are zero
C4_BufferRoundTrip ==
    pc = "deserialized" /\ scenario = "buffer" => RoundTrip

(***************************************************************************)
(* The block compressor on its own: encode, then decode with the length of *)
(* the input                                                               *)
(***************************************************************************)
MaxLzLen == 8
MaxLzRun == 40

\* n bytes that repeat with period p
Periodic(p, n) == [i \in 1..n |-> i % p]

LzInputs ==
    UNION {[1..n -> {0, 1}] : n \in 0..MaxLzLen}
    \cup {Periodic(p, n) : p \in 1..5, n \in 9..MaxLzRun}
    \cup {<< 7, 8, 9 >> \o Periodic(p, n) \o << 1, 2, 3, 4, 5, 6 >> : p \in 1..3, n \in 9..MaxLzRun}

InitLz ==
    /\ pc = "start"
    /\ scenario = "block"
    /\ lz \in {[NoLz EXCEPT !.input = b] : b \in LzInputs}
    /\ inHeap = << >>
    /\ inVal = VUndef
    /\ options = [compress |-> FALSE]
    /\ wire = [isString |-> TRUE, s |-> << >>]
    /\ result = NoResult
    /\ ModuleInit
    /\ StoreInit
    /\ PoolInit

\* lz4Util.encode(input, 0)
Encode ==
    /\ pc = "start"
    /\ lz' = [lz EXCEPT !.encoded = encodeBlock(lz.input)]
    /\ pc' = "encoded"
    /\ UNCHANGED << scenario, inHeap, inVal, options, wire, result, modvars, poolvars >>

\* lz4Util.decode(encoded, 0, input.length)
Decode ==
    /\ pc = "encoded"
    /\ \E r \in {decodeBlock(lz.encoded, Len(lz.input))} :
           lz' = [lz EXCEPT !.ok = r.ok, !.decoded = r.bytes]
    /\ pc' = "decoded"
    /\ UNCHANGED << scenario, inHeap, inVal, options, wire, result, modvars, poolvars >>

NextLz == Encode \/ Decode
SpecLz == InitLz /\ [][NextLz]_vars

\* C5: decoding what encode returned, with the length of the input, gives the
\* input back, for every input including the empty one and those shorter
\* than 12 bytes
C5_BlockRoundTrip ==
    pc = "decoded" => lz.ok /\ lz.decoded = lz.input

(***************************************************************************)
(* Values handed to serialize with and without compression                 *)
(***************************************************************************)
MaxRun == 64

\* strings with a run of k NUL characters
RunStrings ==
    {hd \o Rep(0, k) \o tl :
         hd \in {<< >>, << 120 >>}, k \in 0..MaxRun,
         tl \in {<< >>, << 97 >>, << 97, 98 >>, << 97, 98, 99 >>}}

CompressInputs ==
    {Input("string", << >>, VStr(s)) : s \in RunStrings}
    \cup {Input("flat", << Flat(kind, n) >>, VRef(1)) : kind \in Kinds, n \in {3, 87, 88}}
    \cup {Input("buffer", << BufObj(Rep(b, n), n) >>, VRef(1)) : b \in {0, 1}, n \in {40, 50}}

InitCompress == CallerInit(CompressInputs, {TRUE, FALSE})
NextCompress == Serialize \/ Deserialize
SpecCompress == InitCompress /\ [][NextCompress]_vars

\* deserialize(serialize(v))
PlainRoundTrip ==
    With([o \in {deserialize(SerializePlain(inHeap, inVal),
                     [readRefs |-> NoRefs, readHeap |-> << >>, readStr |-> << >>,
                      readPtr |-> 0, readEnd |-> 0, refCounter |-> 1])} |->
        [kind |-> o.kind, heap |-> o.heap, val |-> o.val]])

\* C6: what is decoded from the string serialize returns when compression is
\* requested is what is decoded from the string it returns without
C6_CompressRoundTrip ==
    pc = "deserialized" /\ options.compress = TRUE => result = PlainRoundTrip

\* C7: serialize returns the compressed form exactly when compression is
\* requested and the compressed form is at most 0.85 times as long as the
\* plain form, and the plain form otherwise
C7_CompressChoice ==
    pc = "serialized" =>
        LET s == SerializePlain(inHeap, inVal)
            t == CompressedForm(s)
        IN  /\ StartsWith(t, MAGICLZ4PREFIX)
            /\ wire.s = IF options.compress = TRUE /\ 20 * Len(t) <= 17 * Len(s) THEN t ELSE s

\* the compressed form has been returned, and it is close to the threshold
C7_Witness ==
    /\ pc = "serialized"
    /\ options.compress = TRUE
    /\ StartsWith(wire.s, MAGICLZ4PREFIX)
    /\ 5 * Len(wire.s) > 4 * Len(SerializePlain(inHeap, inVal))

(***************************************************************************)
(* Strings received from storage, handed to canDeserialize and deserialize *)
(***************************************************************************)
\* "UOSC_1 " and "UOSC/lz4_1 "
PlainMagic == << 85, 79, 83, 67, 95, 49, 32 >>
Lz4Magic == << 85, 79, 83, 67, 47, 108, 122, 52, 95, 49, 32 >>

BeginsWith(s, text) == Len(s) >= Len(text) /\ \A i \in 1..Len(text) : s[i] = text[i]
BeginsWithMagic(s) == BeginsWith(s, PlainMagic) \/ BeginsWith(s, Lz4Magic)

\* what follows the prefix when a value is serialized
Enc(heap, val) == _serialize(heap, val, WriteStart).buf

Heads ==
    {PlainMagic, Lz4Magic, << >>}
    \cup {SubSeq(PlainMagic, 1, n) : n \in 1..6}
    \cup {SubSeq(Lz4Magic, 1, n) : n \in 1..10}
    \cup {<< 85, 79, 83, 67, 95, 50, 32 >>, << 85, 79, 83, 67, 95, 48, 32 >>,
          << 85, 79, 83, 67, 47, 108, 122, 52, 95, 50, 32 >>,
          << 32, 85, 79, 83, 67, 95, 49, 32 >>, << 117, 111, 115, 99, 95, 49, 32 >>,
          << 104, 101, 108, 108, 111 >>, << 123, 34, 97, 34, 58, 49, 125 >>}

GoodPayloads ==
    {<< >>, Enc(<< >>, VInt(0)), Enc(<< >>, VStr(<< 97, 98 >>)), Enc(<< >>, VInt(-7744)),
     Enc(<< Flat("array", 2) >>, VRef(1)), Enc(<< Flat("map", 1) >>, VRef(1)),
     Enc(<< BufObj(<< 1, 0, 0, 0, 2 >>, 5) >>, VRef(1)),
     Enc(Lz4Heap(0, << 0 >>), VRef(1))}

\* characters that are no type tag: index 0, index 35, outside the alphabet,
\* above 127
BadTags == {<< 38 >>, intToChar(35), << 33 >>, << 200 >>}

\* payloads with a character that is no type tag where a tag is read: at top
\* level, as a child, in a field of a byte buffer
BadPayloads ==
    BadTags
    \cup {C(I_ARRAY_SMALL) \o intToChar(2) \o b \o C(I_ZERO) : b \in BadTags}
    \cup {C(I_ARRAY_SMALL) \o intToChar(2) \o C(I_ZERO) \o b : b \in BadTags}
    \cup {C(I_SMALL_OBJECT) \o intToChar(1) \o Enc(<< >>, VStr(<< 97 >>)) \o b : b \in BadTags}
    \cup {C(I_SET_SMALL) \o intToChar(1) \o b : b \in BadTags}
    \cup {C(I_MAP_SMALL) \o intToChar(1) \o b \o C(I_NULL) : b \in BadTags}
    \cup {C(I_ARRAY_SMALL) \o intToChar(1) \o C(I_ARRAY_SMALL) \o intToChar(1) \o b :
              b \in BadTags}
    \cup {C(I_ARRAYBUFFER) \o serializeSize(4) \o b \o C(I_BOOL_FALSE)
              \o Enc(<< >>, VStr(serializeSize(0))) : b \in BadTags}
    \cup {C(I_ARRAYBUFFER) \o serializeSize(4) \o Enc(<< >>, VInt(4)) \o b
              \o Enc(<< >>, VStr(serializeSize(0))) : b \in BadTags}
    \cup {C(I_ARRAYBUFFER) \o serializeSize(4) \o Enc(<< >>, VInt(4)) \o C(I_BOOL_FALSE) \o b :
              b \in BadTags}
    \cup {C(I_ARRAYBUFFER) \o serializeSize(4) \o Enc(<< >>, VInt(4)) \o C(I_BOOL_TRUE) \o b :
              b \in BadTags}
    \cup {C(I_UINT8ARRAY) \o serializeSize(0) \o serializeSize(0) \o b : b \in BadTags}
    \cup {CompressedForm(PlainMagic \o b) : b \in BadTags}
    \cup {PlainMagic \o b : b \in BadTags}

\* what is left of a string that ends early, from its first n0 characters on
Truncations(p, n0) == {SubSeq(p, 1, n) : n \in n0..(Len(p) - 1)}

\* payloads that end before the declared children, characters or digits have
\* been read
TruncatedPayloads ==
    UNION {Truncations(p, 1) :
               p \in {Enc(<< >>, VStr(<< 97, 98, 99 >>)), Enc(<< >>, VStr(Rep(97, 88))),
                      Enc(<< >>, VInt(-7744)),
                      Enc(<< Flat("array", 2) >>, VRef(1)), Enc(<< Flat("map", 1) >>, VRef(1)),
                      Enc(<< Flat("object", 1) >>, VRef(1)), Enc(<< Flat("set", 2) >>, VRef(1)),
                      Enc(Nest(2, 0, VInt(88)), VRef(1)),
                      Enc(<< BufObj(<< 1, 0, 0, 0, 2 >>, 5) >>, VRef(1))}}

\* strings with a recognised prefix and a truncated payload, plain and
\* compressed
TruncatedStrings ==
    {PlainMagic \o p : p \in TruncatedPayloads}
    \cup Truncations(CompressedForm(PlainMagic \o Enc(<< >>, VStr(<< 97, 98 >>))),
                     Len(Lz4Magic) + 1)

\* payloads with a back-reference whose id is not in the table when it is
\* read: as a child of a list, record, map and set, and after a composite that
\* is in the table
BadRefPayloads ==
    UNION {{C(I_ARRAY_SMALL) \o intToChar(1) \o C(I_REFERENCE) \o serializeSize(id),
            C(I_ARRAY_SMALL) \o intToChar(2) \o C(I_ZERO) \o C(I_REFERENCE) \o serializeSize(id),
            C(I_SMALL_OBJECT) \o intToChar(1) \o Enc(<< >>, VStr(<< 97 >>))
                \o C(I_REFERENCE) \o serializeSize(id),
            C(I_MAP_SMALL) \o intToChar(1) \o C(I_NULL) \o C(I_REFERENCE) \o serializeSize(id),
            C(I_SET_SMALL) \o intToChar(1) \o C(I_REFERENCE) \o serializeSize(id),
            C(I_ARRAY_SMALL) \o intToChar(2) \o Enc(<< Flat("array", 0) >>, VRef(1))
                \o C(I_REFERENCE) \o serializeSize(id + 1)} : id \in {1, 2, 7, 88}}

Received ==
    {[name |-> "good", arg |-> [isString |-> TRUE, s |-> h \o p]] :
         h \in Heads, p \in GoodPayloads \cup {Lz4Magic, PlainMagic}}
    \cup {[name |-> "badtag", arg |-> [isString |-> TRUE, s |-> h \o p]] :
              h \in Heads, p \in BadPayloads}
    \cup {[name |-> "good", arg |-> [isString |-> TRUE, s |-> CompressedForm(PlainMagic \o p)]] :
              p \in GoodPayloads}
    \cup {[name |-> "truncated", arg |-> [isString |-> TRUE, s |-> t]] : t \in TruncatedStrings}
    \cup {[name |-> "badref", arg |-> [isString |-> TRUE, s |-> PlainMagic \o p]] :
              p \in BadRefPayloads}
    \cup {[name |-> "notstring", arg |-> [isString |-> FALSE, s |-> << >>]]}

InitReceived ==
    /\ pc = "received"
    /\ \E r \in Received :
          /\ scenario = r.name
          /\ wire = r.arg
    /\ inHeap = << >>
    /\ inVal = VUndef
    /\ options = [compress |-> FALSE]
    /\ result = NoResult
    /\ lz = NoLz
    /\ ModuleInit
    /\ StoreInit
    /\ PoolInit

NextReceived == CanDeserialize \/ Deserialize
SpecReceived == InitReceived /\ [][NextReceived]_vars

\* C8: canDeserialize returns true exactly for a string that begins with
\* "UOSC_1 " or with "UOSC/lz4_1 ", false for anything else, a value that is
\* no string included, and leaves the state of the module as it was
C8_CanDeserialize ==
    pc = "asked" =>
        /\ result.kind = "returned"
        /\ result.val = VBool(wire.isString /\ BeginsWithMagic(wire.s))
        /\ ModuleInit

\* canDeserialize has answered true for a string with the compressed prefix
C8_Witness ==
    /\ pc = "asked"
    /\ BeginsWith(wire.s, Lz4Magic)
    /\ result.val = VBool(TRUE)

\* C9: deserialize of a string that does not begin with "UOSC_1 " or with
\* "UOSC/lz4_1 " returns nothing and throws nothing
C9_Unrecognised ==
    pc = "deserialized" /\ wire.isString /\ ~BeginsWithMagic(wire.s) =>
        result.kind = "returned" /\ result.val = VUndef

\* a string of another version, with a payload that could be decoded, has been
\* refused
C9_Witness ==
    /\ pc = "deserialized"
    /\ wire.s = << 85, 79, 83, 67, 95, 50, 32 >> \o Enc(<< >>, VInt(-7744))
    /\ result.kind = "returned"
    /\ result.val = VUndef

\* C10: when a character that is no type tag is read where a tag is expected,
\* after a prefix that is recognised, deserialize returns nothing and throws
\* nothing
C10_UnknownTag ==
    pc = "deserialized" /\ scenario = "badtag" /\ BeginsWithMagic(wire.s) =>
        result.kind = "returned" /\ result.val = VUndef

\* C11: when the string ends, after a recognised prefix, before all declared
\* children or declared characters have been read, deserialize returns
\* nothing: no container with missing children filled in, no shortened string
C11_Truncated ==
    pc = "deserialized" /\ scenario = "truncated" =>
        result.kind = "returned" /\ result.val = VUndef

\* C12: when a back-reference carries an id that is not in the read-side table
\* when it is read, deserialize returns nothing: no value in which that
\* position holds undefined or another object
C12_UnknownReference ==
    pc = "deserialized" /\ scenario = "badref" =>
        result.kind = "returned" /\ result.val = VUndef

(***************************************************************************)
(* Long strings handed to serialize.  The string of n times the character  *)
(* c is held as [t |-> "repeat", n |-> n, s |-> << c >>], and the string    *)
(* returned for it as its first characters followed by the repeated one    *)
(***************************************************************************)
VRepeat(c, n) == [t |-> "repeat", n |-> n, s |-> << c >>]

\* the plain form up to the characters of the string (lines 545, 1042)
LongHead(n) == MAGICPREFIX \o C(I_STRING_LARGE) \o serializeSize(n)

\* uint8ArrayBefore.length for the plain form of a long string (line 1048)
LongEncodedLength(data) ==
    Len(TextEncode(LongHead(data.n), 1)) + data.n * Len(EncodeChar(data.s[1]))

\* 0x7E000000
EncodeLimit == 2113929216

\* if ( iLen >= 0x7E000000 ) { throw new RangeError(); }
encodeThrows(iLen) == iLen >= EncodeLimit

\* serialize(data, opts) for a long string whose encoded plain form reaches
\* the limit of encodeBlock: [kind, head, refCounter]
serializeLong(data, opts) ==
    IF opts.compress # TRUE
    THEN [kind |-> "returned", head |-> LongHead(data.n), refCounter |-> 1]
    ELSE IF encodeThrows(LongEncodedLength(data))
    THEN [kind |-> "thrown", head |-> << >>, refCounter |-> 1]
    ELSE [kind |-> "unmodelled", head |-> << >>, refCounter |-> 1]

\* the least number of euro signs (8364, three bytes in UTF-8) whose plain form is encoded in 0x7E000000
\* bytes or more, and how many lengths from there on are tried
MinLong == 704643068
MaxLongExtra == 60

LongInputs == {VRepeat(8364, n) : n \in MinLong..(MinLong + MaxLongExtra)}

InitLong ==
    /\ pc = "start"
    /\ scenario = "long"
    /\ inHeap = << >>
    /\ inVal \in LongInputs
    /\ options \in {[compress |-> TRUE], [compress |-> FALSE]}
    /\ wire = [isString |-> TRUE, s |-> << >>]
    /\ result = NoResult
    /\ lz = NoLz
    /\ ModuleInit
    /\ StoreInit
    /\ PoolInit

\* serialize(inVal, options) for a long string
SerializeLong ==
    /\ pc = "start"
    /\ inVal.t = "repeat"
    /\ \E r \in {serializeLong(inVal, options)} :
           /\ r.kind # "unmodelled"
           /\ result' = [kind |-> r.kind, heap |-> << >>, val |-> VUndef]
           /\ wire' = [isString |-> TRUE, s |-> r.head,
                       repeat |-> IF r.kind = "returned" THEN inVal ELSE VRepeat(0, 0)]
           /\ refCounter' = r.refCounter
    /\ writeRefs' = NoRefs
    /\ writeBuffer' = << >>
    /\ pc' = "serializedLong"
    /\ UNCHANGED << scenario, inHeap, inVal, options, lz,
                    readRefs, readHeap, readStr, readPtr, readEnd, poolvars >>

NextLong == SerializeLong
SpecLong == InitLong /\ [][NextLong]_vars

\* C17: when the compressor throws while serialize(v, {compress: true}) is
\* compressing, the call returns the plain form of v and does not fail
C17_CompressFallback ==
    pc = "serializedLong" /\ options.compress = TRUE =>
        /\ result.kind = "returned"
        /\ wire.s = LongHead(inVal.n)
        /\ wire.repeat = inVal

(***************************************************************************)
(* Objects handed to setConfig                                             *)
(***************************************************************************)
ConfigValues ==
    {VInt(0), VInt(1), VInt(3), VInt(-1), VInt(8), VInt(5000), VStr(<< 51 >>), VBool(TRUE),
     VNaN, VNull, VUndef}

Prop(key, val) == [key |-> key, val |-> val]

ConfigInputs ==
    {<< >>}
    \cup {<< Prop(key, val) >> :
              key \in {"maxThreadCount", "threadTTL", "other", "0"}, val \in ConfigValues}
    \cup {<< Prop("maxThreadCount", a), Prop("threadTTL", b) >> :
              a \in {VInt(0), VInt(1), VInt(3), VStr(<< 51 >>)}, b \in {VInt(0), VInt(8), VInt(-1)}}
    \cup {<< Prop("threadTTL", b), Prop("maxThreadCount", a) >> :
              a \in {VInt(1), VInt(3)}, b \in {VInt(0), VInt(8)}}
    \cup {<< Prop("0", VInt(3)), Prop("maxThreadCount", VInt(3)) >>,
          << Prop("other", VInt(3)), Prop("threadTTL", VInt(8)), Prop("maxThreadCount", VInt(4)) >>}

\* the caller is about to call setConfig with one of the inputs
InitConfig ==
    /\ pc = "config"
    /\ scenario = "config"
    /\ inHeap = << >>
    /\ inVal = VUndef
    /\ options = [compress |-> FALSE]
    /\ wire = [isString |-> TRUE, s |-> << >>]
    /\ result = NoResult
    /\ lz = NoLz
    /\ ModuleInit
    /\ StoreInit
    /\ config \in ConfigInputs
    /\ currentConfig = defaultConfig
    /\ pool = << >>
    /\ thread = << >>
    /\ worker = << >>
    /\ calls = << >>
    /\ now = 0

\* setConfig(config)
SetConfig ==
    /\ pc = "config"
    /\ currentConfig' = setConfig(config, currentConfig)
    /\ pc' = "configured"
    /\ UNCHANGED << scenario, inHeap, inVal, options, wire, result, lz, modvars,
                    config, pool, thread, worker, calls, now, storevars >>

\* getConfig()
GetConfig ==
    /\ pc = "configured"
    /\ result' = [kind |-> "returned", heap |-> << >>, val |-> getConfig(currentConfig)]
    /\ pc' = "got"
    /\ UNCHANGED << scenario, inHeap, inVal, options, wire, lz, modvars, poolvars >>

NextConfig == SetConfig \/ GetConfig
SpecConfig == InitConfig /\ [][NextConfig]_vars

\* whether setConfig is to take the value of a key: the key is a key of the
\* argument, its value is a number, and the number is in the range of the key
Accepted(key) ==
    /\ \E i \in 1..Len(config) : config[i].key = key
    /\ GetProperty(config, key).t = "number"
    /\ GetProperty(config, key).n >= (IF key = "maxThreadCount" THEN 1 ELSE 0)

\* what the configuration is to be after setConfig(config), from the default
ConfigExpected ==
    [key \in {"maxThreadCount", "threadTTL"} |->
        IF Accepted(key) THEN GetProperty(config, key) ELSE defaultConfig[key]]

\* C16: setConfig sets every recognised key whose value is of the right type
\* and passes its validation, and the next getConfig returns the new value;
\* unknown keys, wrong types and values that fail validation leave the prior
\* value in effect
C16_SetConfig ==
    /\ pc \in {"configured", "got"} => currentConfig = ConfigExpected
    /\ pc = "got" => result.val = ConfigExpected

(***************************************************************************)
(* Asynchronous API (part_001:1125-1299).  One step of the model is one    *)
(* task or one continuation of the calling context, or one message handled *)
(* by a background context.  A Thread and its Worker are known by their    *)
(* index in thread and worker; a call by its index in calls.               *)
(***************************************************************************)
MaxCalls == 2
MaxPoolCalls == 3
MaxLookupCalls == 4
MaxLoad == 3
MaxThreads == 3
TickMs == 5000
MaxTime == 10000

\* the string of a list that holds itself: a = []; a.push(a); serialize(a)
SelfList == PlainMagic \o Enc(<< Obj("array", << VRef(1) >>) >>, VRef(1))

\* the string of [ {}, new ArrayBuffer(5) ], cut inside the byte-buffer item:
\* deserialize throws after the object was read
CutInBuffer ==
    PlainMagic \o SubSeq(Enc(<< Obj("array", << VRef(2), VRef(3) >>), Obj("object", << >>),
                                BufObj(<< 1, 0, 0, 0, 2 >>, 5) >>, VRef(1)), 1, 7)

\* what serializeAsync and deserializeAsync are called with: a list to
\* serialize, the string of a list that holds itself, a string that is not
\* recognised (deserialize returns undefined), a string on which deserialize
\* throws
AsyncJobs ==
    << [what |-> "serialize", heap |-> << Flat("array", 2) >>, val |-> VRef(1), s |-> << >>],
       [what |-> "deserialize", heap |-> << >>, val |-> VUndef, s |-> SelfList],
       [what |-> "deserialize", heap |-> << >>, val |-> VUndef,
        s |-> << 104, 101, 108, 108, 111 >>],
       [what |-> "deserialize", heap |-> << >>, val |-> VUndef, s |-> CutInBuffer] >>

\* the jobs a caller submits and how many calls it makes: the callers that
\* exercise the pool make more calls, of the two jobs that return a value
Repertoire ==
    IF scenario \in {"pool", "lookup", "stray"} THEN {1, 2} ELSE 1..Len(AsyncJobs)
CallBound ==
    CASE scenario \in {"pool", "stray"} -> MaxPoolCalls
      [] scenario = "lookup" -> MaxLookupCalls
      [] OTHER -> MaxCalls

\* the state of the serializer module of the calling context, and of a
\* context in which the module was loaded and nothing was called
ModuleNow ==
    [readRefs |-> readRefs, readHeap |-> readHeap, readStr |-> readStr, readPtr |-> readPtr,
     readEnd |-> readEnd, refCounter |-> refCounter]
FreshModule ==
    [readRefs |-> NoRefs, readHeap |-> << >>, readStr |-> << >>, readPtr |-> 0, readEnd |-> 0,
     refCounter |-> 1]

\* serialize(data, options) or deserialize(data) run from the module state
\* before: [kind, heap, val] and the module state afterwards
Run(job, before) ==
    IF job.what = "serialize"
    THEN With([r \in {serialize(job.heap, job.val, [compress |-> FALSE])} |->
             [kind |-> "returned", heap |-> << >>, val |-> VStr(r.out)]
                 @@ [before EXCEPT !.refCounter = r.refCounter]])
    ELSE deserialize(job.s, before)

Answer(o) == [kind |-> o.kind, heap |-> o.heap, val |-> o.val]

\* a value that crosses to or from a background context is copied by the
\* structured clone algorithm: the same graph, of new objects
StructuredClone(a) ==
    With([c \in {Canon(a.heap, a.val)} |-> [kind |-> a.kind, heap |-> c.heap, val |-> c.val]])

\* if ( result !== undefined ) { return result; } return serialize(data, options);
Settle(job, received, before) ==
    IF received.val # VUndef THEN received @@ before ELSE Run(job, before)

Msg(what, id, job, answer) == [what |-> what, id |-> id, job |-> job, result |-> answer]

\* new Thread(gcer): ok = FALSE when new Worker(...) throws; the catch block
\* then assigns to a property of null, the executor throws and workerPromise
\* is rejected
NewThread(ok) ==
    [jobs |-> NoRefs, jobIdGenerator |-> 1, workerAccessTime |-> 0,
     workerTimer |-> [set |-> FALSE, due |-> 0], idleSince |-> 0,
     workerPromise |-> IF ok THEN "pending" ELSE "rejected"]

NewWorker(ok) ==
    [state |-> IF ok THEN "running" ELSE "none",
     inbox |-> IF ok THEN << Msg("ready?", 0, 0, NoResult) >> ELSE << >>,
     outbox |-> << >>,
     onmessage |-> IF ok THEN "handshake" ELSE "null",
     onerror |-> IF ok THEN "handshake" ELSE "null",
     fresh |-> ok,
     module |-> FreshModule]

\* thread.jobs.size
JobCount(th, t) == Cardinality(DOMAIN th[t].jobs)

\* pool.reduce((best, candidate) => candidate.jobs.size < best.jobs.size ? candidate : best)
FirstLeast(p, th) ==
    p[CHOOSE i \in 1..Len(p) :
          \A k \in 1..Len(p) :
              \/ JobCount(th, p[k]) > JobCount(th, p[i])
              \/ JobCount(th, p[k]) = JobCount(th, p[i]) /\ k >= i]

\* a lookup that takes the first member whenever the pool is full, whatever
\* the members have to do
getThreadFirst(p, th, cfg) ==
    IF Len(p) # 0 /\ VInt(Len(p)) = cfg.maxThreadCount
    THEN [member |-> p[1], create |-> FALSE]
    ELSE [member |-> Len(th) + 1, create |-> TRUE]

\* a lookup that creates a member whenever every member has a job to do
getThreadGrow(p, th, cfg) ==
    IF \E i \in 1..Len(p) : JobCount(th, p[i]) = 0
    THEN [member |-> p[CHOOSE i \in 1..Len(p) : JobCount(th, p[i]) = 0], create |-> FALSE]
    ELSE [member |-> Len(th) + 1, create |-> TRUE]

\* threads.getThread(): the member returned, and whether it is to be created
getThread(p, th, cfg) ==
    IF \E i \in 1..Len(p) : JobCount(th, p[i]) = 0
    THEN [member |-> p[CHOOSE i \in 1..Len(p) :
                           /\ JobCount(th, p[i]) = 0
                           /\ \A k \in 1..(i - 1) : JobCount(th, p[k]) # 0],
          create |-> FALSE]
    ELSE IF Len(p) # 0 /\ VInt(Len(p)) = cfg.maxThreadCount
    THEN [member |-> IF Len(p) = 1 THEN p[1] ELSE FirstLeast(p, th), create |-> FALSE]
    ELSE [member |-> Len(th) + 1, create |-> TRUE]

\* this.countdownWorker()
countdownWorker(th, t, time, cfg) ==
    IF th[t].workerTimer.set THEN th
    ELSE [th EXCEPT ![t].workerTimer = [set |-> TRUE, due |-> time + cfg.threadTTL.n]]

\* the time at which the last job of a Thread ended; kept with the Thread for
\* the comparison and read by no step
IdleFrom(th, t, time) == [th EXCEPT ![t].idleSince = time]

\* the gcer of a Thread: pool.splice(pool.indexOf(thread), 1)
Gcer(p, t) ==
    IF \A i \in 1..Len(p) : p[i] # t THEN p
    ELSE With([pos \in {CHOOSE i \in 1..Len(p) : p[i] = t} |->
             SubSeq(p, 1, pos - 1) \o SubSeq(p, pos + 1, Len(p))])

\* a continuation waits to run: a call whose Thread has settled its
\* workerPromise; it runs before the next task does
MicrotaskPending ==
    \E c \in 1..Len(calls) :
        calls[c].pc = "awaitWorker" /\ thread[calls[c].member].workerPromise # "pending"

callervars == << pc, scenario, inHeap, inVal, options, wire, result, lz, storevars >>

\* the module state of the calling context after a run
SetModule(o) ==
    /\ readRefs' = o.readRefs
    /\ readHeap' = o.readHeap
    /\ readStr' = o.readStr
    /\ readPtr' = o.readPtr
    /\ readEnd' = o.readEnd
    /\ refCounter' = o.refCounter
    /\ UNCHANGED << writeRefs, writeBuffer >>

Settled(o) == IF o.kind = "returned" THEN "resolved" ELSE "rejected"

\* what serialize / deserialize returns when it is called, with the arguments
\* of job j, where the asynchronous function is called; kept with the call
\* for the comparison and read by no step
SyncAnswer(j) == Answer(Run(AsyncJobs[j], ModuleNow))

\* serializeAsync(data, options) / deserializeAsync(data, options) with
\* options.thread !== true (lines 1258-1260, 1267-1269)
CallLocal ==
    /\ pc = "async"
    /\ Len(calls) < CallBound
    /\ \E j \in Repertoire :
       \E o \in {Run(AsyncJobs[j], ModuleNow)} :
           /\ calls' = Append(calls, [job |-> j, thread |-> FALSE, pc |-> Settled(o),
                                      member |-> 0, id |-> 0, result |-> Answer(o),
                                      sync |-> Answer(o)])
           /\ SetModule(o)
    /\ UNCHANGED << callervars, config, currentConfig, pool, thread, worker, now >>

\* serializeAsync / deserializeAsync with options.thread === true, up to the
\* await of Thread.serialize / Thread.deserialize (lines 1261, 1249-1254,
\* 1230-1247, 1135-1165, 1195-1197)
CallThread ==
    /\ pc = "async"
    /\ Len(calls) < CallBound
    /\ \E j \in Repertoire :
       \E g \in {getThread(pool, thread, currentConfig)} :
           /\ calls' = Append(calls, [job |-> j, thread |-> TRUE, pc |-> "awaitWorker",
                                      member |-> g.member, id |-> 0, result |-> NoResult,
                                      sync |-> SyncAnswer(j)])
           /\ IF g.create
              THEN /\ Len(thread) < MaxThreads
                   /\ \E ok \in BOOLEAN :
                          /\ thread' = Append(thread,
                                 [NewThread(ok) EXCEPT !.workerAccessTime = now])
                          /\ worker' = Append(worker, NewWorker(ok))
                   /\ pool' = Append(pool, g.member)
              ELSE /\ thread' = [thread EXCEPT ![g.member].workerAccessTime = now]
                   /\ UNCHANGED << worker, pool >>
    /\ UNCHANGED << callervars, modvars, config, currentConfig, now >>

ModuleOf(o) ==
    [readRefs |-> o.readRefs, readHeap |-> o.readHeap, readStr |-> o.readStr,
     readPtr |-> o.readPtr, readEnd |-> o.readEnd, refCounter |-> o.refCounter]

\* worker.postMessage(msg): a context that was terminated or that stopped
\* never reads the message
postMessage(w, msg) ==
    IF w.state = "running" THEN [w EXCEPT !.inbox = Append(@, msg)] ELSE w

\* Thread.serialize / Thread.deserialize after await this.workerPromise, when
\* the promise was rejected: the call is rejected
ResumeRejected(c, t) ==
    /\ thread[t].workerPromise = "rejected"
    /\ calls' = [calls EXCEPT ![c].pc = "rejected"]
    /\ UNCHANGED << thread, worker, modvars >>

\* ... when worker === null (lines 1198-1202, 1214-1218), and then lines
\* 1262-1263, 1271-1272 of the caller
ResumeLocal(c, t) ==
    /\ thread[t].workerPromise = "null"
    /\ \E o1 \in {Run(AsyncJobs[calls[c].job], ModuleNow)} :
           IF o1.kind # "returned"
           THEN /\ calls' = [calls EXCEPT ![c].pc = "rejected", ![c].result = Answer(o1)]
                /\ SetModule(o1)
                /\ UNCHANGED thread
           ELSE \E o2 \in {Settle(AsyncJobs[calls[c].job], Answer(o1), ModuleOf(o1))} :
                /\ calls' = [calls EXCEPT ![c].pc = Settled(o2), ![c].result = Answer(o2)]
                /\ SetModule(o2)
                /\ thread' = countdownWorker(IdleFrom(thread, t, now), t, now, currentConfig)
    /\ UNCHANGED worker

\* ... when there is a worker (lines 1203-1208, 1219-1224): the job is
\* recorded and posted
ResumePost(c, t) ==
    /\ thread[t].workerPromise = "worker"
    /\ \E id \in {thread[t].jobIdGenerator} :
           /\ thread' = [thread EXCEPT ![t].jobIdGenerator = id + 1,
                                       ![t].jobs = (id :> c) @@ @]
           /\ worker' = [worker EXCEPT ![t] =
                             postMessage(@, Msg(AsyncJobs[calls[c].job].what, id,
                                                calls[c].job, NoResult))]
           /\ calls' = [calls EXCEPT ![c].pc = "posted", ![c].id = id]
    /\ UNCHANGED modvars

\* the continuation of Thread.serialize / Thread.deserialize after
\* await this.workerPromise (lines 1197-1208, 1213-1224)
ThreadResume ==
    /\ pc = "async"
    /\ \E c \in 1..Len(calls) :
           /\ calls[c].pc = "awaitWorker"
           /\ \/ ResumeRejected(c, calls[c].member)
              \/ ResumeLocal(c, calls[c].member)
              \/ ResumePost(c, calls[c].member)
    /\ UNCHANGED << callervars, config, currentConfig, pool, now >>

\* worker.onerror of the constructor (lines 1154-1157), or no handler
OnError(t, msg) ==
    /\ msg.what = "error"
    /\ IF worker[t].onerror = "handshake"
       THEN /\ worker' = [worker EXCEPT ![t].outbox = Tail(@), ![t].onmessage = "null",
                                        ![t].onerror = "null"]
            /\ thread' = [thread EXCEPT ![t].workerPromise = "null"]
       ELSE /\ worker' = [worker EXCEPT ![t].outbox = Tail(@)]
            /\ UNCHANGED thread
    /\ UNCHANGED << calls, modvars >>

\* worker.onmessage of the constructor (lines 1145-1153)
OnHandshake(t, msg) ==
    /\ msg.what # "error"
    /\ worker[t].onmessage = "handshake"
    /\ IF msg.what = "ready!"
       THEN /\ worker' = [worker EXCEPT ![t].outbox = Tail(@), ![t].onmessage = "thread",
                                        ![t].onerror = "null"]
            /\ thread' = [thread EXCEPT ![t].workerPromise = "worker"]
       ELSE /\ worker' = [worker EXCEPT ![t].outbox = Tail(@)]
            /\ UNCHANGED thread
    /\ UNCHANGED << calls, modvars >>

\* the job posted last, whatever the id of the message
JobOfLast(jobs, id) == jobs[CHOOSE k \in DOMAIN jobs : \A m \in DOMAIN jobs : m <= k]

\* this.jobs.get(job.id)
JobOf(jobs, id) == jobs[id]

\* the jobs of a Thread without the job id
WithoutJob(jobs, id) == [k \in DOMAIN jobs \ {id} |-> jobs[k]]

\* Thread.onmessage (lines 1185-1193), and then lines 1262-1263, 1271-1272
\* of the caller that is resolved
OnMessage(t, msg) ==
    /\ msg.what # "error"
    /\ worker[t].onmessage = "thread"
    /\ worker' = [worker EXCEPT ![t].outbox = Tail(@)]
    /\ IF msg.id \notin DOMAIN thread[t].jobs
       THEN UNCHANGED << thread, calls, modvars >>
       ELSE \E c \in {JobOf(thread[t].jobs, msg.id)} :
            \E th \in {[thread EXCEPT ![t].jobs = WithoutJob(@, msg.id)]} :
            \E o \in {Settle(AsyncJobs[calls[c].job], msg.result, ModuleNow)} :
                /\ thread' = IF JobCount(th, t) # 0 THEN th
                             ELSE countdownWorker(IdleFrom(th, t, now), t, now,
                                                  currentConfig)
                /\ calls' = [calls EXCEPT ![c].pc = Settled(o), ![c].result = Answer(o)]
                /\ SetModule(o)

\* a message or an error event after the handlers were set to null
Unhandled(t, msg) ==
    /\ msg.what # "error"
    /\ worker[t].onmessage = "null"
    /\ worker' = [worker EXCEPT ![t].outbox = Tail(@)]
    /\ UNCHANGED << thread, calls, modvars >>

\* the calling context handles the next event of a Worker
Receive ==
    /\ pc = "async"
    /\ ~MicrotaskPending
    /\ \E t \in 1..Len(worker) :
           /\ worker[t].outbox # << >>
           /\ \/ OnError(t, Head(worker[t].outbox))
              \/ OnHandshake(t, Head(worker[t].outbox))
              \/ OnMessage(t, Head(worker[t].outbox))
              \/ Unhandled(t, Head(worker[t].outbox))
    /\ UNCHANGED << callervars, config, currentConfig, pool, now >>

\* worker.terminate()
Terminated(w) ==
    [w EXCEPT !.state = "terminated", !.inbox = << >>, !.outbox = << >>,
              !.onmessage = "null", !.onerror = "null"]

\* the callback of the timer of countdownWorker (lines 1169-1182)
TimerFires ==
    /\ pc = "async"
    /\ ~MicrotaskPending
    /\ \E t \in 1..Len(thread) :
           /\ thread[t].workerTimer.set
           /\ now >= thread[t].workerTimer.due
           /\ \E th \in {[thread EXCEPT ![t].workerTimer = [set |-> FALSE, due |-> 0]]} :
                  IF JobCount(th, t) # 0
                  THEN thread' = th /\ UNCHANGED << pool, worker >>
                  ELSE IF now - th[t].workerAccessTime < currentConfig.threadTTL.n
                  THEN /\ thread' = countdownWorker(th, t, now, currentConfig)
                       /\ UNCHANGED << pool, worker >>
                  ELSE /\ thread' = th
                       /\ pool' = Gcer(pool, t)
                       /\ worker' = IF th[t].workerPromise = "null" THEN worker
                                    ELSE [worker EXCEPT ![t] = Terminated(@)]
    /\ UNCHANGED << callervars, modvars, config, currentConfig, calls, now >>

\* time passes while a timer runs
Tick ==
    /\ pc = "async"
    /\ now < MaxTime
    /\ \E t \in 1..Len(thread) : thread[t].workerTimer.set /\ now < thread[t].workerTimer.due
    /\ now' = now + TickMs
    /\ UNCHANGED << callervars, modvars, config, currentConfig, pool, thread, worker, calls >>

\* globalThis.onmessage of a background context (lines 1282-1298); a job
\* that throws posts nothing, and the error event goes to the Worker object
WorkerHandle ==
    /\ pc = "async"
    /\ \E t \in 1..Len(worker) :
           /\ worker[t].state = "running"
           /\ worker[t].inbox # << >>
           /\ \E msg \in {Head(worker[t].inbox)} :
                  IF msg.what = "ready?"
                  THEN worker' = [worker EXCEPT ![t].inbox = Tail(@), ![t].fresh = FALSE,
                                     ![t].outbox = Append(@, Msg("ready!", 0, 0, NoResult))]
                  ELSE \E o \in {Run(AsyncJobs[msg.job], worker[t].module)} :
                       worker' = [worker EXCEPT ![t].inbox = Tail(@),
                                     ![t].module = ModuleOf(o),
                                     ![t].outbox = Append(@,
                                         IF o.kind = "returned"
                                         THEN Msg("undefined", msg.id, msg.job,
                                                  StructuredClone(Answer(o)))
                                         ELSE Msg("error", 0, 0, NoResult))]
    /\ UNCHANGED << callervars, modvars, config, currentConfig, pool, thread, calls, now >>

\* the script of a background context fails before it handles a message: an
\* error event goes to the Worker object
WorkerFails ==
    /\ pc = "async"
    /\ \E t \in 1..Len(worker) :
           /\ worker[t].state = "running"
           /\ worker[t].fresh
           /\ worker' = [worker EXCEPT ![t].state = "stopped", ![t].fresh = FALSE,
                             ![t].inbox = << >>,
                             ![t].outbox = Append(@, Msg("error", 0, 0, NoResult))]
    /\ UNCHANGED << callervars, modvars, config, currentConfig, pool, thread, calls, now >>

\* a background context takes a message and never is done with it: it
\* handles no message from then on, and no event tells
WorkerStops ==
    /\ pc = "async"
    /\ \E t \in 1..Len(worker) :
           /\ worker[t].state = "running"
           /\ worker[t].inbox # << >>
           /\ worker' = [worker EXCEPT ![t].state = "stopped", ![t].fresh = FALSE,
                             ![t].inbox = << >>]
    /\ UNCHANGED << callervars, modvars, config, currentConfig, pool, thread, calls, now >>

\* the module is loaded and no call was made
InitAsync ==
    /\ pc = "async"
    /\ scenario = "async"
    /\ inHeap = << >>
    /\ inVal = VUndef
    /\ options = [compress |-> FALSE]
    /\ wire = [isString |-> TRUE, s |-> << >>]
    /\ result = NoResult
    /\ lz = NoLz
    /\ ModuleInit
    /\ StoreInit
    /\ PoolInit

\* the module is loaded and no call was made, by a caller that exercises
\* the pool
InitPool ==
    /\ pc = "async"
    /\ scenario = "pool"
    /\ inHeap = << >>
    /\ inVal = VUndef
    /\ options = [compress |-> FALSE]
    /\ wire = [isString |-> TRUE, s |-> << >>]
    /\ result = NoResult
    /\ lz = NoLz
    /\ ModuleInit
    /\ StoreInit
    /\ PoolInit

\* a Thread whose handshake is over and that was posted n jobs, none of them
\* handled yet, by the calls first, first + 1, ...
LoadedThread(n, first) ==
    [NewThread(TRUE) EXCEPT !.workerPromise = "worker", !.jobIdGenerator = n + 1,
                            !.jobs = [id \in 1..n |-> first + id - 1]]
LoadedWorker(n) ==
    [NewWorker(TRUE) EXCEPT !.inbox = [id \in 1..n |-> Msg("serialize", id, 1, NoResult)],
                            !.onmessage = "thread", !.onerror = "null", !.fresh = FALSE]
LoadedCalls(a, b) ==
    [c \in 1..(a + b) |->
        [job |-> 1, thread |-> TRUE, pc |-> "posted", member |-> IF c <= a THEN 1 ELSE 2,
         id |-> IF c <= a THEN c ELSE c - a, result |-> NoResult,
         sync |-> Answer(Run(AsyncJobs[1], FreshModule))]]

\* the pool holds one member with a jobs or two members with a and b jobs,
\* all of them posted and none handled, and the caller submits one more job
InitLookup ==
    /\ pc = "async"
    /\ scenario = "lookup"
    /\ inHeap = << >>
    /\ inVal = VUndef
    /\ options = [compress |-> FALSE]
    /\ wire = [isString |-> TRUE, s |-> << >>]
    /\ result = NoResult
    /\ lz = NoLz
    /\ ModuleInit
    /\ StoreInit
    /\ config = << >>
    /\ currentConfig = defaultConfig
    /\ now = 0
    /\ \E a \in 1..MaxLoad, b \in 0..MaxLoad :
           /\ a + b = MaxLookupCalls - 1
           /\ pool = IF b = 0 THEN << 1 >> ELSE << 1, 2 >>
           /\ thread = IF b = 0 THEN << LoadedThread(a, 1) >>
                        ELSE << LoadedThread(a, 1), LoadedThread(b, a + 1) >>
           /\ worker = IF b = 0 THEN << LoadedWorker(a) >>
                        ELSE << LoadedWorker(a), LoadedWorker(b) >>
           /\ calls = LoadedCalls(a, b)

\* two members with one job each, and an event for Thread.onmessage of the
\* first member whose id is the id of no job
InitStray ==
    /\ pc = "async"
    /\ scenario = "stray"
    /\ inHeap = << >>
    /\ inVal = VUndef
    /\ options = [compress |-> FALSE]
    /\ wire = [isString |-> TRUE, s |-> << >>]
    /\ result = NoResult
    /\ lz = NoLz
    /\ ModuleInit
    /\ StoreInit
    /\ config = << >>
    /\ currentConfig = defaultConfig
    /\ now = 0
    /\ pool = << 1, 2 >>
    /\ thread = << LoadedThread(1, 1), LoadedThread(1, 2) >>
    /\ worker = << [LoadedWorker(1) EXCEPT !.outbox =
                        << Msg("undefined", 0, 1, StructuredClone(SyncAnswer(1))) >>],
                   LoadedWorker(1) >>
    /\ calls = LoadedCalls(1, 1)

NextAsync ==
    \/ CallLocal \/ CallThread \/ ThreadResume \/ Receive \/ TimerFires \/ Tick
    \/ WorkerHandle \/ WorkerFails \/ WorkerStops
SpecAsync == InitAsync /\ [][NextAsync]_vars
SpecPool == InitPool /\ [][NextAsync]_vars
SpecLookup == InitLookup /\ [][NextAsync]_vars
SpecJobs == (InitPool \/ InitStray) /\ [][NextAsync]_vars

\* the event loop of the calling context runs every continuation and every
\* task that is ready, and a background context that runs handles the
\* messages it was sent
SpecAsyncFair ==
    SpecAsync /\ WF_vars(ThreadResume) /\ WF_vars(Receive) /\ WF_vars(WorkerHandle)

\* the call was made with options.thread === true and its Thread got no
\* background context: new Worker threw, or the handshake ended in an error
Unavailable(c) ==
    /\ calls[c].thread
    /\ thread[calls[c].member].workerPromise \in {"rejected", "null"}

SameAnswer(a, b) == a.kind = b.kind /\ Canon(a.heap, a.val) = Canon(b.heap, b.val)

\* C13: a call that requests background execution, and whose background
\* context cannot be created or fails its handshake, is not rejected: it
\* resolves with what the work returns when it is run locally
C13_Fallback ==
    \A c \in 1..Len(calls) :
        Unavailable(c) /\ calls[c].sync.kind = "returned" =>
            /\ calls[c].pc # "rejected"
            /\ calls[c].pc = "resolved" => SameAnswer(calls[c].result, calls[c].sync)

\* C14: every call of serializeAsync / deserializeAsync, for arguments the
\* synchronous function returns for, is resolved in the end, whatever happens
\* to the background contexts
C14_Completes ==
    \A c \in 1..MaxCalls :
        (Len(calls) >= c /\ calls[c].sync.kind = "returned")
            ~> (Len(calls) >= c /\ calls[c].pc = "resolved")

\* C15: the value a call of serializeAsync / deserializeAsync resolves with
\* is the value serialize / deserialize returns for the same arguments when
\* it is called in its place, whether the work ran in a background context
\* or locally
C15_SameAsSync ==
    \A c \in 1..Len(calls) :
        calls[c].pc = "resolved" => SameAnswer(calls[c].result, calls[c].sync)

\* a printable ASCII character that JSON.stringify writes as it is: not a
\* control character, not above 126, neither the double quote nor the backslash
JsonSafe(c) == c \in 32..126 /\ c \notin {34, 92}

\* C18: the string returned by serialize holds printable ASCII characters
\* only, none of which is escaped when the string is written as a JSON value,
\* whatever the strings of the input hold
C18_Printable ==
    pc \in {"serialized", "deserialized"} =>
        \A i \in 1..Len(wire.s) : JsonSafe(wire.s[i])

\* the write-side table when the walk of serialize is over: object -> id
WriteIds(heap, val) == _serialize(heap, val, WriteStart).refs

\* the reader when the walk of deserialize is over, before the table is
\* cleared: rs.refs is the read-side table, id -> object
ReadSide(s) == _deserialize(StartRead(s, MAGICPREFIX))

\* the object registered under id on the read side is the reconstruction of
\* the object a of the input
SameObject(rs, id, a) ==
    /\ id \in DOMAIN rs.refs
    /\ Canon(rs.heap, VRef(rs.refs[id])) = Canon(inHeap, VRef(a))

\* C19: every record, list, set and map of the input is registered on the
\* read side under the id serialize gave it, and a container is registered
\* before its children are read, so that a back-reference from a child to an
\* enclosing container (a list that holds itself) resolves to that container
C19_SameIds ==
    pc = "deserialized" /\ scenario \in {"flat", "nested", "shared", "cyclic"} =>
        /\ \A a \in DOMAIN WriteIds(inHeap, inVal) :
               SameObject(ReadSide(wire.s), WriteIds(inHeap, inVal)[a], a)
        /\ scenario = "cyclic" => RoundTrip

\* the string ends with a back-reference to id
EndsWithReference(str, id) ==
    With([ref \in {C(I_REFERENCE) \o serializeSize(id)} |->
        Len(str) >= Len(ref) /\ SubSeq(str, Len(str) - Len(ref) + 1, Len(str)) = ref])

\* C20: a date or a regular expression held at two positions of a value gets
\* an id at its first occurrence, its second occurrence is written as a
\* back-reference to that id, and both positions are decoded into one object
C20_SharedLeaf ==
    scenario = "sharedleaf" /\ pc # "start" =>
        /\ 2 \in DOMAIN WriteIds(inHeap, inVal)
        /\ EndsWithReference(wire.s, WriteIds(inHeap, inVal)[2])
        /\ pc = "deserialized" => RoundTrip

\* the objects of a value in the order in which a walk from the root, children
\* in order, first meets them: object -> rank
WalkOrder(heap, val) ==
    CanonVal(heap, val, [map |-> NoRefs, out |-> << >>, val |-> VUndef]).map

\* an object that goes through the write-side table: not a date, not a
\* regular expression
Tracked(heap, a) == heap[a].k \notin {"date", "regexp"}

\* the rank of a among the tracked objects, in the order of first encounter
FirstMet(heap, val, a) ==
    Cardinality({b \in DOMAIN WalkOrder(heap, val) :
                    Tracked(heap, b) /\ WalkOrder(heap, val)[b] <= WalkOrder(heap, val)[a]})

\* every record, list, set and map of the value has the id of its first
\* encounter, 1, 2, 3, ..., and the string holds each of them once: reading
\* the string to its end builds as many objects as the value has
WrittenOnce ==
    /\ DOMAIN WriteIds(inHeap, inVal)
           = {a \in DOMAIN WalkOrder(inHeap, inVal) : Tracked(inHeap, a)}
    /\ \A a \in DOMAIN WriteIds(inHeap, inVal) :
           WriteIds(inHeap, inVal)[a] = FirstMet(inHeap, inVal, a)
    /\ refCounter = Cardinality(DOMAIN WriteIds(inHeap, inVal)) + 1
    /\ scenario \in {"flat", "nested", "shared", "cyclic"} =>
           With([rs \in {ReadSide(wire.s)} |->
               /\ ~rs.thrown /\ ~rs.loops
               /\ rs.ptr = rs.end
               /\ Len(rs.heap) = Cardinality(DOMAIN WriteIds(inHeap, inVal))])

WithDetached(outer, inner, n) ==
    << Obj(outer, TwiceItems(outer, VRef(2), VRef(3))), Flat(inner, n), DetachedBuf >>

AgainHeaps ==
    {WithDetached(outer, inner, n) : outer \in {"array", "object", "map"}, inner \in Kinds,
                                     n \in {0, 1}}
    \cup {Shared(outer, inner, n) : outer \in {"array", "object", "map"}, inner \in Kinds,
                                    n \in {0, 1}}

\* what the caller hands to serialize: the container, the object it holds, a number
AgainValues == {VRef(1), VRef(2), VInt(7)}

InitAgain ==
    /\ pc = "start"
    /\ scenario = "again"
    /\ inHeap \in AgainHeaps
    /\ inVal \in {VRef(1), VRef(2)}
    /\ options = [compress |-> FALSE]
    /\ wire = [isString |-> TRUE, s |-> << >>]
    /\ result = NoResult
    /\ lz = NoLz
    /\ ModuleInit
    /\ StoreInit
    /\ PoolInit

\* the caller, after its first call returned or threw, is about to call
\* serialize again
PickNext ==
    /\ pc \in {"serialized", "threw"}
    /\ scenario = "again"
    /\ inVal' \in AgainValues
    /\ pc' = "again"
    /\ UNCHANGED << scenario, inHeap, options, wire, result, lz, modvars, poolvars >>

NextAgain == Serialize \/ PickNext
SpecAgain == InitAgain /\ [][NextAgain]_vars

\* C22: when a call of serialize is over, by a return or by an exception, and
\* when the next call begins, writeRefs and writeBuffer are empty; the string
\* a call returns is the string serialize returns for the same value in a
\* module in which nothing was called before
C22_WriteReset ==
    /\ pc \in {"serialized", "threw", "again", "serializedAgain", "threwAgain"} =>
           writeRefs = NoRefs /\ writeBuffer = << >>
    /\ pc = "serializedAgain" => wire.s = serialize(inHeap, inVal, options).out

\* the step submits a job to the pool: serializeAsync or deserializeAsync with
\* options.thread === true
Submits == Len(calls') = Len(calls) + 1 /\ calls'[Len(calls')].thread
Assigned == calls'[Len(calls')].member
InPool(t) == \E i \in 1..Len(pool) : pool[i] = t

\* C23: a job submitted to the pool goes to a member that has no outstanding
\* job when there is one, and the pool stays as it is; otherwise, when the pool
\* has fewer than maxThreadCount members, to a new member that is appended to
\* the pool; otherwise to a member of the pool that no other member has fewer
\* outstanding jobs than, and the pool stays as it is
C23_Lookup ==
    [][Submits =>
          IF \E i \in 1..Len(pool) : JobCount(thread, pool[i]) = 0
          THEN InPool(Assigned) /\ JobCount(thread, Assigned) = 0 /\ pool' = pool
          ELSE IF Len(pool) < currentConfig.maxThreadCount.n
          THEN /\ ~InPool(Assigned)
               /\ Len(thread') = Len(thread) + 1
               /\ Assigned = Len(thread')
               /\ pool' = Append(pool, Assigned)
          ELSE /\ InPool(Assigned)
               /\ \A i \in 1..Len(pool) :
                      JobCount(thread, Assigned) <= JobCount(thread, pool[i])
               /\ pool' = pool]_vars

\* the first member has two jobs to do and the second has one, none of them
\* answered, and the job submitted then went to the second member
C23_Witness ==
    /\ scenario = "lookup"
    /\ Len(calls) = 4
    /\ \A c \in 1..3 : calls[c].pc = "posted" /\ calls[c].thread
    /\ calls[1].member = 1 /\ calls[2].member = 1 /\ calls[3].member = 2
    /\ calls[4].thread /\ calls[4].member = 2
    /\ Len(pool) = currentConfig.maxThreadCount.n

\* C24: the pool never holds more than maxThreadCount members, and no member
\* twice
C24_PoolBound ==
    /\ Len(pool) <= currentConfig.maxThreadCount.n
    /\ \A i, k \in 1..Len(pool) : pool[i] = pool[k] => i = k

\* a member was torn down and removed, a third Thread was created since, and
\* the pool is full again
C24_Witness ==
    /\ scenario = "pool"
    /\ Len(thread) = 3
    /\ Len(pool) = currentConfig.maxThreadCount.n
    /\ \E t \in 1..Len(thread) : ~InPool(t) /\ worker[t].state = "terminated"

\* the step posts jobs to member t: each gets the id the generator holds, and
\* the generator goes up
PostsInOrder(t) ==
    /\ thread'[t].jobIdGenerator >= thread[t].jobIdGenerator
    /\ \A id \in DOMAIN thread'[t].jobs \ DOMAIN thread[t].jobs :
           /\ id = thread[t].jobIdGenerator
           /\ thread'[t].jobIdGenerator = id + 1
           /\ \A k \in DOMAIN thread[t].jobs : k < id
           /\ worker[t].state = "running" =>
                  /\ Len(worker'[t].inbox) = Len(worker[t].inbox) + 1
                  /\ worker'[t].inbox[Len(worker'[t].inbox)].id = id
                  /\ \A i \in 1..Len(worker[t].inbox) : worker[t].inbox[i].id < id

\* the step settles the posted call c: the event handled is the one with the
\* id of c, from the member of c, for the job of c; that id leaves the jobs of
\* the member and no other does; no other call changes
ResolvesOwn(c) ==
    \E t \in {calls[c].member} :
        /\ worker[t].outbox # << >>
        /\ \E msg \in {Head(worker[t].outbox)} :
               /\ msg.id = calls[c].id
               /\ msg.job = calls[c].job
               /\ calls'[c].pc = "resolved"
               /\ calls'[c].result =
                      Answer(Settle(AsyncJobs[calls[c].job], msg.result, ModuleNow))
        /\ DOMAIN thread'[t].jobs = DOMAIN thread[t].jobs \ {calls[c].id}
        /\ \A u \in 1..Len(thread) : u # t => thread'[u].jobs = thread[u].jobs
        /\ \A d \in 1..Len(calls) : d # c => calls'[d] = calls[d]

\* the step handles an event of member t whose id is the id of none of its jobs
DropsUnknown(t) ==
    /\ worker[t].onmessage = "thread"
    /\ worker[t].outbox # << >>
    /\ Head(worker[t].outbox).what # "error"
    /\ Head(worker[t].outbox).id \notin DOMAIN thread[t].jobs
    /\ worker'[t].outbox = Tail(worker[t].outbox)

\* C25: the jobs posted to a member get the ids 1, 2, 3, ... in the order in
\* which they are posted; an event with the id of a job settles the call of
\* that job, with the result the background context computed for that job,
\* and takes the job from the jobs of the member; a call that is settled
\* stays as it is; an event with the id of no job changes no member and no call
C25_Jobs ==
    [][/\ \A t \in 1..Len(thread) : PostsInOrder(t)
       /\ \A c \in 1..Len(calls) :
              /\ calls[c].thread /\ calls[c].pc = "posted" /\ calls'[c].pc # "posted"
                     => ResolvesOwn(c)
              /\ calls[c].pc \in {"resolved", "rejected"} => calls'[c] = calls[c]
       /\ \A t \in 1..Len(thread) :
              DropsUnknown(t) => thread' = thread /\ calls' = calls]_vars

\* two jobs of different kinds on two members: the one submitted second is
\* answered and the one submitted first is not
C25_Witness ==
    /\ scenario = "pool"
    /\ Len(calls) >= 2
    /\ calls[1].thread /\ calls[2].thread
    /\ calls[1].member # calls[2].member
    /\ calls[1].job # calls[2].job
    /\ calls[1].pc = "posted" /\ calls[2].pc = "resolved"
    /\ calls[2].result # calls[1].sync

\* an event with the id of no job was handled
StrayHandled ==
    scenario = "stray" /\ worker[1].outbox = << >> /\ calls[1].pc = "posted"

(***************************************************************************)
(* cacheStorage in extension-storage mode (cachestorage.js:94-216) over     *)
(* cacheAPI (229-378) and webext.storage.local.  A key is the sequence of  *)
(* the parts between its slashes; a store and a bin are functions from     *)
(* keys to what they hold; the values stored are shorter than LARGE        *)
(***************************************************************************)
LARGE == 16384
LARGE_000 == 65536

KeyCompiled == << "cache", "compiled", "a" >>
KeyAsset == << "cache", "a" >>
KeyRegistry == << "assetCacheRegistry" >>

\* the keys in the order in which Object.keys gives them
StoreKeys == << KeyCompiled, KeyAsset, KeyRegistry >>
StoreKeySet == {StoreKeys[i] : i \in 1..Len(StoreKeys)}
StoreData == {VStr(<< 97 >>), VInt(7)}

\* what set is called with, and get: null, a key, a list of keys
SetArgs == UNION {[ks -> StoreData] : ks \in SUBSET StoreKeySet \ {{}}}
KeyLists ==
    {<< >>, << KeyCompiled >>, << KeyAsset >>, << KeyRegistry >>,
     << KeyCompiled, KeyAsset >>, << KeyCompiled, KeyRegistry >>, << KeyAsset, KeyRegistry >>,
     << KeyCompiled, KeyAsset, KeyRegistry >>}
GetArgs ==
    {[t |-> "null", key |-> << >>, keys |-> << >>]}
    \cup {[t |-> "string", key |-> k, keys |-> << >>] : k \in StoreKeySet}
    \cup {[t |-> "array", key |-> << >>, keys |-> ks] : ks \in KeyLists}

keysFromGetArg(arg) ==
    CASE arg.t = "null" -> << >>
      [] arg.t = "string" -> << arg.key >>
      [] arg.t = "array" -> arg.keys

\* key.startsWith('cache/') and /^cache\/(compiled|selfie)\//.test(key)
IsCacheKey(key) == Len(key) >= 2 /\ key[1] = "cache"
IsCompiledOrSelfie(key) ==
    Len(key) >= 3 /\ key[1] = "cache" /\ key[2] \in {"compiled", "selfie"}

Restrict(bin, ks) == [k \in DOMAIN bin \cap ks |-> bin[k]]

shouldCache(bin) ==
    Restrict(bin, {k \in DOMAIN bin : IsCacheKey(k) => IsCompiledOrSelfie(k)})

\* typeof data === 'string' && data.length >= LARGE
isLargeData(data, large) ==
    \/ data.t = "string" /\ Len(data.s) >= large
    \/ data.t = "repeat" /\ data.n >= large

\* the options compress and decompress hand to serializeAsync / deserializeAsync
compressOptions(isLarge) == [compress |-> isLarge, multithreaded |-> isLarge]
decompressOptions(isLarge) == [multithreaded |-> isLarge]

\* serializeAsync / deserializeAsync: if ( options.thread !== true ), the
\* work is done by the caller, otherwise it is handed to threads
AsyncBranch(opts) ==
    IF "thread" \in DOMAIN opts /\ opts.thread = TRUE THEN "runsInPool" ELSE "runsLocal"

\* compress(key, data): serializeAsync(data, options), which calls
\* serialize(data, options)
compress(data) ==
    serialize(<< >>, data, compressOptions(isLargeData(data, LARGE)))

\* decompress(key, data) from the module state before: [kind, heap, val] and
\* the module state afterwards
decompress(data, before) ==
    IF ~canDeserialize([isString |-> TRUE, s |-> data])
    THEN [kind |-> "returned", heap |-> << >>, val |-> VStr(data)] @@ before
    ELSE deserialize(data, before)

\* the loop of set over the keys: [out, refCounter]
RECURSIVE CompressAll(_, _, _)
CompressAll(kv, i, acc) ==
    IF i > Len(StoreKeys) THEN acc
    ELSE IF StoreKeys[i] \notin DOMAIN kv THEN CompressAll(kv, i + 1, acc)
    ELSE With([r \in {compress(kv[StoreKeys[i]])} |->
             CompressAll(kv, i + 1, [out |-> (StoreKeys[i] :> r.out) @@ acc.out,
                                     refCounter |-> r.refCounter])])

\* the loop of get over the keys of bin: [out, module]
RECURSIVE DecompressAll(_, _, _)
DecompressAll(bin, i, acc) ==
    IF i > Len(StoreKeys) THEN acc
    ELSE IF StoreKeys[i] \notin DOMAIN bin THEN DecompressAll(bin, i + 1, acc)
    ELSE With([o \in {decompress(bin[StoreKeys[i]], acc.module)} |->
             DecompressAll(bin, i + 1, [out |-> (StoreKeys[i] :> Answer(o)) @@ acc.out,
                                        module |-> ModuleOf(o)])])

UndefinedBin == [defined |-> FALSE, bin |-> << >>]

\* cacheAPI.get(keys) for a list of keys
cacheAPIget(c, keys) ==
    IF ~c.open THEN UndefinedBin
    ELSE IF Len(keys) = 0 THEN [defined |-> TRUE, bin |-> c.entries]
    ELSE With([found \in {Restrict(c.entries, {keys[i] : i \in 1..Len(keys)})} |->
             IF DOMAIN found = {} THEN UndefinedBin ELSE [defined |-> TRUE, bin |-> found]])

\* storageLocal.get(keys)
storageLocalGet(l, arg) ==
    CASE arg.t = "null" -> l
      [] arg.t = "string" -> Restrict(l, {arg.key})
      [] arg.t = "array" -> Restrict(l, {arg.keys[i] : i \in 1..Len(arg.keys)})

\* cacheStorage.set(keyvalStore), with the writes it starts
StoreSet ==
    /\ pc \in {"store", "stored", "got"}
    /\ \E kv \in SetArgs :
       \E done \in {CompressAll(kv, 1, [out |-> << >>, refCounter |-> refCounter])} :
           /\ caches' = IF caches.open
                        THEN [caches EXCEPT !.entries = shouldCache(done.out) @@ @]
                        ELSE caches
           /\ storageLocal' = done.out @@ storageLocal
           /\ refCounter' = done.refCounter
           /\ result' = [kind |-> "returned", arg |-> kv, bin |-> << >>]
    /\ pc' = "stored"
    /\ UNCHANGED << scenario, inHeap, inVal, options, wire, lz, writeRefs, writeBuffer,
                    readRefs, readHeap, readStr, readPtr, readEnd,
                    config, currentConfig, pool, thread, worker, calls, now >>

\* cacheStorage.get(arg)
StoreGet ==
    /\ pc \in {"store", "stored", "got"}
    /\ \E arg \in GetArgs :
       \E first \in {cacheAPIget(caches, keysFromGetArg(arg))} :
       \E bin \in {IF first.defined THEN first.bin ELSE storageLocalGet(storageLocal, arg)} :
       \E done \in {DecompressAll(bin, 1, [out |-> << >>, module |-> ModuleNow])} :
           /\ result' = [kind |-> "returned", arg |-> arg, bin |-> done.out]
           /\ SetModule(done.module)
    /\ pc' = "got"
    /\ UNCHANGED << scenario, inHeap, inVal, options, wire, lz,
                    config, currentConfig, pool, thread, worker, calls, now, storevars >>

\* the module is loaded and nothing is stored; the Cache opened, or caches
\* is not there
InitStore ==
    /\ pc = "store"
    /\ scenario = "store"
    /\ inHeap = << >>
    /\ inVal = VUndef
    /\ options = [compress |-> FALSE]
    /\ wire = [isString |-> TRUE, s |-> << >>]
    /\ result = NoResult
    /\ lz = NoLz
    /\ ModuleInit
    /\ PoolInit
    /\ caches \in {[open |-> o, entries |-> << >>] : o \in BOOLEAN}
    /\ storageLocal = << >>

NextStore == StoreSet \/ StoreGet
SpecStore == InitStore /\ [][NextStore]_vars

\* the keys a call of get asks for
Requested(arg) ==
    IF arg.t = "null" THEN StoreKeySet
    ELSE {keysFromGetArg(arg)[i] : i \in 1..Len(keysFromGetArg(arg))}

\* C29: what get returns holds every key that was asked for and that one of
\* the two stores holds
C29_BothStores ==
    pc = "got" /\ result.arg.t \in {"string", "array"} =>
        \A k \in Requested(result.arg) :
            k \in DOMAIN storageLocal \/ (caches.open /\ k \in DOMAIN caches.entries)
            => k \in DOMAIN result.bin

\* compress and decompress of cacheStorage with values about as long as the
\* threshold, as the two copies of the file have them: cachestorage.js (LARGE)
\* and part_000 (65536).  A stored string is held as in SerializeLong: its
\* first characters and the repeated character that follows them
RouteSpan == 12
LargeOf(file) == IF file = "part_000" THEN LARGE_000 ELSE LARGE
StoredLength(w) == Len(w.s) + w.repeat.n

RouteData(large) ==
    {VRepeat(97, n) : n \in (large - RouteSpan)..(large + RouteSpan)} \cup {VInt(large)}
RouteStored(large) ==
    {[isString |-> TRUE, s |-> LongHead(m), repeat |-> VRepeat(97, m)] :
         m \in (large - 2 * RouteSpan)..large}
    \cup {[isString |-> TRUE, s |-> << 104, 105 >>, repeat |-> VRepeat(97, large)]}

\* compress(key, data), up to the branch serializeAsync takes
CacheCompress ==
    /\ pc = "cacheCompress"
    /\ options' = compressOptions(isLargeData(inVal, LargeOf(scenario)))
    /\ pc' = AsyncBranch(options')
    /\ UNCHANGED << scenario, inHeap, inVal, wire, result, lz, modvars, poolvars >>

\* decompress(key, data), up to the branch deserializeAsync takes
CacheDecompress ==
    /\ pc = "cacheDecompress"
    /\ IF ~canDeserialize(wire)
       THEN pc' = "asIs" /\ UNCHANGED options
       ELSE /\ options' = decompressOptions(StoredLength(wire) >= LargeOf(scenario))
            /\ pc' = AsyncBranch(options')
    /\ UNCHANGED << scenario, inHeap, inVal, wire, result, lz, modvars, poolvars >>

InitRoute ==
    /\ scenario \in {"cachestorage.js", "part_000"}
    /\ \/ /\ pc = "cacheCompress"
          /\ inVal \in RouteData(LargeOf(scenario))
          /\ wire = [isString |-> TRUE, s |-> << >>]
       \/ /\ pc = "cacheDecompress"
          /\ inVal = VUndef
          /\ wire \in RouteStored(LargeOf(scenario))
    /\ inHeap = << >>
    /\ options = [compress |-> FALSE]
    /\ result = NoResult
    /\ lz = NoLz
    /\ ModuleInit
    /\ StoreInit
    /\ PoolInit

NextRoute == CacheCompress \/ CacheDecompress
SpecRoute == InitRoute /\ [][NextRoute]_vars

\* the value the call is about is a string of LARGE characters or more
RouteIsLarge ==
    IF pc = "cacheCompress" \/ "compress" \in DOMAIN options
    THEN isLargeData(inVal, LargeOf(scenario))
    ELSE StoredLength(wire) >= LargeOf(scenario)

\* C30: the call cacheStorage makes of serializeAsync or deserializeAsync is
\* handed to the thread pool when the string has LARGE characters or more,
\* and is run by the caller when it is shorter
C30_Dispatch ==
    pc \in {"runsLocal", "runsInPool"} => (pc = "runsInPool" <=> RouteIsLarge)

\* the half of it that holds: a shorter value is run by the caller
RouteShortLocal ==
    pc \in {"runsLocal", "runsInPool"} /\ ~RouteIsLarge => pc = "runsLocal"

\* C27: every call of deserialize comes to an end, by a return or by an
\* exception: reading a numeral that no separator follows stops at the end of
\* the string
C27_Terminates ==
    pc = "deserialized" => result.kind # "loops"

\* C28: when no more than maxThreadCount jobs were submitted to the pool and
\* none of them was posted yet, no two of them were assigned to the same member
C28_CountsAssigned ==
    /\ Len(calls) <= currentConfig.maxThreadCount.n
    /\ \A c \in 1..Len(calls) : calls[c].thread /\ calls[c].pc = "awaitWorker"
    => \A c, d \in 1..Len(calls) : c # d => calls[c].member # calls[d].member

\* the calls that were submitted to member t and are not settled: assigned
\* and not yet posted, or posted and not yet answered
Unsettled(t) ==
    {c \in 1..Len(calls) :
        calls[c].thread /\ calls[c].member = t /\ calls[c].pc \in {"awaitWorker", "posted"}}

\* the step takes member t out of the pool
Removes(t) == InPool(t) /\ \A i \in 1..Len(pool') : pool'[i] # t

\* the step is the expiry of the countdown of member t, which has no job
AtExpiry(t) ==
    /\ thread[t].workerTimer.set
    /\ now >= thread[t].workerTimer.due
    /\ ~thread'[t].workerTimer.set
    /\ JobCount(thread, t) = 0
    /\ Unsettled(t) = {}

\* a member leaves the pool only at the expiry of its countdown and without a
\* job, and a background context is terminated only then
TeardownAtExpiry ==
    [][\A t \in 1..Len(thread) :
          \/ Removes(t)
          \/ worker[t].state # "terminated" /\ worker'[t].state = "terminated"
          => AtExpiry(t) /\ Removes(t)]_vars

\* a member that was taken out of the pool, or whose background context was
\* terminated, has no call that is not settled
NoJobLost ==
    \A t \in 1..Len(thread) :
        ~InPool(t) \/ worker[t].state = "terminated" => Unsettled(t) = {}

\* C26: a member leaves the pool only at the expiry of its countdown, with no
\* outstanding job and no job ended less than threadTTL ago; a member that
\* has a job, posted or not yet posted, is never terminated
C26_Teardown ==
    [][\A t \in 1..Len(thread) :
          \/ Removes(t)
          \/ worker[t].state # "terminated" /\ worker'[t].state = "terminated"
          => /\ AtExpiry(t)
             /\ now - thread[t].idleSince >= currentConfig.threadTTL.n
             /\ Unsettled(t) = {}]_vars

\* every caller at once: the initial states and the steps of all of them
Init == InitValues \/ InitBuffers \/ InitLz \/ InitCompress \/ InitReceived \/ InitConfig
            \/ InitLong \/ InitAsync \/ InitAgain \/ InitPool \/ InitLookup \/ InitStray
        \/ InitStore \/ InitRoute
Next == Serialize \/ Deserialize \/ CanDeserialize \/ Encode \/ Decode \/ SetConfig \/ GetConfig
            \/ SerializeLong \/ PickNext
            \/ CallLocal \/ CallThread \/ ThreadResume \/ Receive \/ TimerFires \/ Tick
            \/ WorkerHandle \/ WorkerFails \/ WorkerStops
            \/ StoreSet \/ StoreGet \/ CacheCompress \/ CacheDecompress
Spec == Init /\ [][Next]_vars

====
